---------------------------- MODULE Spec2Model ----------------------------
(***************************************************************************)
(* pr-documentator: the analysis pipeline (AnalyzerService.AnalyzePR) and  *)
(* the Postman collection reconciliation (postman.Client.UpdateCollection  *)
(* and the functions it calls).                                            *)
(*                                                                         *)
(* Strings are TLA+ strings; Len, SubSeq and \o on them are Go's len(s),   *)
(* s[a:b] and s + t on ASCII text.  A Go slice expression s[:n] with       *)
(* n > len(s) panics at run time: every such expression is modelled with   *)
(* its bounds test, and the panic is an outcome of the step.               *)
(*                                                                         *)
(* Left out of the records because no modelled operation reads them:       *)
(* timestamps (UpdatedAt), request bodies and example responses of a       *)
(* converted item, item ids and events, collection metadata.               *)
(***************************************************************************)
EXTENDS Integers, Sequences, FiniteSets, TLC

VARIABLES
    store,          \* the collection's root items as the Postman API holds them
    event,          \* number of events AnalyzePR has been called for
    pc,             \* where the current AnalyzePR call stands
    analysisReq,    \* AnalyzePR's analysisReq (its ExistingRoutes), until sent
    analysisResp,   \* AnalyzePR's analysisResp (the oracle's response object)
    collection,     \* UpdateCollection's collection.Items, mutated in place
    update,         \* updateCollectionWithRoutes' update
    idx,            \* position of the running range loop in its list
    err,            \* the error AnalyzePR returned ("" = nil), or the panic text
    original,       \* history: collection.Items as GetCollection returned them
    oracle,         \* history: what the oracle answered for this event
    calls,          \* history: calls made for this event, the context fetch apart
    named,          \* history: route changes the oracle has named so far
    updateErr,      \* the err AnalyzePR got from UpdateCollection (nil if none)
    contextErr,     \* AnalyzePR's err after the context fetch, until reassigned
    response,       \* what the handler wrote for the event, once it has
    \* TokenManager
    sessions,       \* tm.sessions: token -> UserSession (its two times)
    mu,             \* tm.mu: the writer that holds it and the readers that do
    now,            \* the clock time.Now() reads, in half hours
    procs,          \* the goroutines calling the TokenManager, and the sweep
    issued,         \* history: every token CreateSession has generated
    \* converter and extractor applied to drawn inputs
    xroute,         \* the APIRoute given to convertRouteToPostmanItem
    xtree,          \* the items given to extractRoutesFromCollection
    xroutes,        \* what the extractor returned (or that it panicked)
    xpc,            \* which of the two functions has been applied
    \* UpdateCollection called for two events at once
    remote,         \* the collection's root items on the Postman server
    updaters,       \* the goroutines running UpdateCollection
    \* the web analysis handler
    web             \* the request WebAnalyzeHandler.Handle is serving

pipelineVars == <<store, event, pc, analysisReq, analysisResp, collection,
                  update, idx, err, original, oracle, calls, named, updateErr,
                  contextErr, response>>

tokenVars == <<sessions, mu, now, procs, issued>>

extractVars == <<xroute, xtree, xroutes, xpc>>

concurrentVars == <<remote, updaters>>

webVars == <<web>>

vars == <<pipelineVars, tokenVars, extractVars, concurrentVars, webVars>>

-----------------------------------------------------------------------------
(* Bounds of the model.                                                    *)

\* events processed one after the other against the same collection
MaxEvents == 2
\* route changes the oracle names over all events, in its three lists
MaxChanges == 3
\* sessions created in all
MaxSessions == 2
\* last reading of the clock, in half hours
MaxTime == 3
\* requests the web analysis handler serves
MaxRequests == 1

-----------------------------------------------------------------------------
(* Text helpers.                                                           *)

BaseUrl == "{{baseUrl}}"
DeprecatedTag == "[DEPRECATED]"
DeprecatedPrefix == "[DEPRECATED] "
DefaultDeprecation == "[DEPRECATED] This endpoint is deprecated."

\* strings.HasPrefix: a total test, used by the properties only
HasPrefix(s, p) == Len(s) >= Len(p) /\ SubSeq(s, 1, Len(p)) = p

\* the number of leading "[DEPRECATED]" tags of s (tags separated by one space)
RECURSIVE TagCount(_)
TagCount(s) ==
    IF ~HasPrefix(s, DeprecatedTag) THEN 0
    ELSE LET rest == SubSeq(s, Len(DeprecatedTag) + 1, Len(s))
         IN 1 + TagCount(IF HasPrefix(rest, " ") THEN SubSeq(rest, 2, Len(rest))
                         ELSE rest)

-----------------------------------------------------------------------------
(* The data model: models.PostmanItem, models.APIRoute, models.PostmanUpdate, *)
(* models.AnalysisResponse.                                                *)

NilRequest == [nil |-> TRUE]
NilResponse == [nil |-> TRUE]

PostmanURL(raw, path) ==
    [raw |-> raw, host |-> <<BaseUrl>>, path |-> path, query |-> <<>>]

PostmanRequest(method, raw, path, description) ==
    [method |-> method, header |-> <<>>, url |-> PostmanURL(raw, path),
     description |-> description]

PostmanItem(name, description, request, items) ==
    [name |-> name, description |-> description, request |-> request,
     items |-> items]

APIRoute(method, path, description) ==
    [method |-> method, path |-> path, description |-> description,
     parameters |-> <<>>, headers |-> <<>>]

\* the zero value of models.PostmanUpdate
ZeroPostmanUpdate ==
    [collectionID |-> "", status |-> "", itemsAdded |-> 0, itemsModified |-> 0,
     itemsDeleted |-> 0, errorMessage |-> ""]

CollectionID == "col-1"

-----------------------------------------------------------------------------
(* RouteChange -> CollectionItem: Client.convertRouteToPostmanItem.        *)

\* lines 287-297: the shallow path segmentation
PathSegments(route) ==
    IF route.path # "" /\ route.path # "/"
    THEN LET path == IF SubSeq(route.path, 1, 1) = "/"
                     THEN SubSeq(route.path, 2, Len(route.path))
                     ELSE route.path
         IN <<BaseUrl, path>>
    ELSE <<BaseUrl>>

\* an Example (any): a JSON string, a JSON number or nothing
StringExample(text) == [kind |-> "string", text |-> text]
NumberExample(number) == [kind |-> "number", number |-> number]
NilExample == [kind |-> "nil"]

\* fmt.Sprintf("%v", example)
FormatValue(example) ==
    CASE example.kind = "string" -> example.text
      [] example.kind = "number" -> ToString(example.number)
      [] OTHER -> "<nil>"

\* models.Header
Header(name, example, description) ==
    [name |-> name, example |-> example, description |-> description]

\* the declared headers after the synthetic one
RECURSIVE DeclaredHeaders(_)
DeclaredHeaders(headers) ==
    IF headers = <<>> THEN <<>>
    ELSE <<[key |-> Head(headers).name, value |-> FormatValue(Head(headers).example),
            type |-> "text", description |-> Head(headers).description]>>
         \o DeclaredHeaders(Tail(headers))

\* a header list in which a declared Content-Type takes the synthetic one's place
ConvertHeadersDeduplicated(route) ==
    LET declared == DeclaredHeaders(route.headers)
        IsContentType(h) == h.key = "Content-Type"
        IsOther(h) == h.key # "Content-Type"
    IN IF SelectSeq(declared, IsContentType) # <<>>
       THEN <<Head(SelectSeq(declared, IsContentType))>> \o SelectSeq(declared, IsOther)
       ELSE <<[key |-> "Content-Type", value |-> "application/json",
               type |-> "text", description |-> ""]>> \o declared

\* lines 304-318: the synthetic Content-Type header, then the declared ones
ConvertHeaders(route) ==
    <<[key |-> "Content-Type", value |-> "application/json", type |-> "text",
       description |-> ""]>>
    \o DeclaredHeaders(route.headers)

\* lines 321-330: only the parameters located in the query become query entries
RECURSIVE ConvertQuery(_)
ConvertQuery(params) ==
    IF params = <<>> THEN <<>>
    ELSE LET p == Head(params)
         IN (IF p.in = "query"
             THEN <<[key |-> p.name, value |-> FormatValue(p.example),
                     description |-> p.description, disabled |-> ~p.required]>>
             ELSE <<>>) \o ConvertQuery(Tail(params))

\* fmt.Sprintf("%s %s", route.Method, route.Path)
RouteName(route) == route.method \o " " \o route.path

\* fmt.Sprintf("{{baseUrl}}%s", route.Path)
RouteRaw(route) == BaseUrl \o route.path

convertRouteToPostmanItem(route) ==
    [name |-> RouteName(route),
     description |-> route.description,
     request |-> [method |-> route.method,
                  header |-> ConvertHeaders(route),
                  url |-> [raw |-> RouteRaw(route), host |-> <<BaseUrl>>,
                           path |-> PathSegments(route),
                           query |-> ConvertQuery(route.parameters)],
                  description |-> route.description],
     items |-> <<>>]

-----------------------------------------------------------------------------
(* Matching, replacement and deprecation: Client.updateExistingItem and    *)
(* Client.markItemAsDeprecated.  Both range over collection.Items, the     *)
(* root list, and stop at the first item that satisfies the condition.     *)

\* a matcher that knows the display name only
ItemMatchesNameOnly(item, route) == item.name = RouteName(route)

\* the condition of both loops (lines 388-390 and 404-406)
ItemMatches(item, route) ==
    \/ item.name = RouteName(route)
    \/ /\ item.request # NilRequest
       /\ item.request.method = route.method
       /\ item.request.url.raw = RouteRaw(route)

\* the index at which `for i, item := range collection.Items` stops, 0 if none
FindItem(items, route) ==
    LET hits == {i \in 1..Len(items) : ItemMatches(items[i], route)}
    IN IF hits = {} THEN 0 ELSE CHOOSE i \in hits : \A j \in hits : i <= j

\* an update that reports success whether or not an item was found
updateExistingItemAlwaysFound(items, route) ==
    LET i == FindItem(items, route)
    IN [found |-> TRUE,
        items |-> IF i = 0 THEN items
                  ELSE [items EXCEPT ![i] = convertRouteToPostmanItem(route)]]

\* updateExistingItem: the returned bool and collection.Items afterwards
updateExistingItem(items, route) ==
    LET i == FindItem(items, route)
    IN IF i = 0 THEN [found |-> FALSE, items |-> items]
       ELSE [found |-> TRUE,
             items |-> [items EXCEPT ![i] = convertRouteToPostmanItem(route)]]

\* lines 409-413: the description is prefixed whatever it holds
DeprecateDescription(description) ==
    IF description = "" THEN DefaultDeprecation
    ELSE DeprecatedPrefix \o description

\* line 416: Name[:12] panics when the name is shorter than 12 bytes
NameSlicePanics(name) == name # "" /\ Len(name) < Len(DeprecatedTag)

\* lines 416-418, for a name on which the slice expression is defined
DeprecateName(name) ==
    IF name # "" /\ SubSeq(name, 1, Len(DeprecatedTag)) # DeprecatedTag
    THEN DeprecatedPrefix \o name
    ELSE name

\* a deletion that reports a match when there is none
markItemAsDeprecatedReportsFound(items, route) ==
    LET i == FindItem(items, route)
    IN [found |-> TRUE, panicked |-> FALSE,
        items |-> IF i = 0 THEN items
                  ELSE [items EXCEPT ![i].description = DeprecatedPrefix \o @]]

\* markItemAsDeprecated: the returned bool, whether it panicked, and
\* collection.Items afterwards (the description is written before the panic)
markItemAsDeprecated(items, route) ==
    LET i == FindItem(items, route)
    IN IF i = 0 THEN [found |-> FALSE, panicked |-> FALSE, items |-> items]
       ELSE LET described ==
                    [items EXCEPT ![i].description = DeprecateDescription(@)]
            IN IF NameSlicePanics(items[i].name)
               THEN [found |-> TRUE, panicked |-> TRUE, items |-> described]
               ELSE [found |-> TRUE, panicked |-> FALSE,
                     items |-> [described EXCEPT ![i].name = DeprecateName(@)]]

-----------------------------------------------------------------------------
(* The Existing-Route Extractor: AnalyzerService.extractRoutesFromCollection. *)

\* line 356: path[0:11] panics when a non-empty raw URL is shorter than 11 bytes
RawSlicePanics(url) == url.raw # "" /\ Len(url.raw) < Len(BaseUrl)

\* an extraction that returns the raw URL with its placeholder
extractRawAsPath(url) == IF url.raw # "" THEN url.raw ELSE "/"

\* extractPathFromURL, for a URL on which the slice expression is defined
extractPathFromURL(url) ==
    IF url.raw # ""
    THEN IF SubSeq(url.raw, 1, Len(BaseUrl)) = BaseUrl
         THEN SubSeq(url.raw, Len(BaseUrl) + 1, Len(url.raw))
         ELSE url.raw
    ELSE IF Len(url.path) > 1
         THEN LET pathSegments == IF url.path[1] = BaseUrl THEN Tail(url.path)
                                  ELSE url.path
              IN IF Len(pathSegments) > 0 THEN "/" \o pathSegments[1] ELSE "/"
         ELSE "/"

\* A []string is an array of the heap `arrays`, 0 for a slice without one, and
\* a length; every slice here starts at the first slot of its array, and the
\* unused slots of an array hold "".
EmptySlice == [array |-> 0, len |-> 0]

Cap(arrays, slice) == IF slice.array = 0 THEN 0 ELSE Len(arrays[slice.array])

Elems(arrays, slice) ==
    IF slice.len = 0 THEN <<>> ELSE SubSeq(arrays[slice.array], 1, slice.len)

\* runtime growslice for one more element of a short slice: 0 -> 1, else double
GrowCap(cap) == IF cap = 0 THEN 1 ELSE 2 * cap

\* append(slice, name): in place when the capacity allows, else in a new array
GoAppend(arrays, slice, name) ==
    IF slice.len < Cap(arrays, slice)
    THEN [arrays |-> [arrays EXCEPT ![slice.array][slice.len + 1] = name],
          slice |-> [array |-> slice.array, len |-> slice.len + 1]]
    ELSE LET grown == [i \in 1..GrowCap(Cap(arrays, slice)) |->
                          IF i <= slice.len THEN arrays[slice.array][i]
                          ELSE IF i = slice.len + 1 THEN name ELSE ""]
         IN [arrays |-> Append(arrays, grown),
             slice |-> [array |-> Len(arrays) + 1, len |-> slice.len + 1]]

\* a route's FolderPath that is the walk's own slice
ShareFolderPath(arrays, folderPath) == [arrays |-> arrays, slice |-> folderPath]

\* line 339: append([]string{}, folderPath...), a slice with an array of its own
CopyFolderPath(arrays, folderPath) ==
    IF folderPath.len = 0 THEN [arrays |-> arrays, slice |-> EmptySlice]
    ELSE [arrays |-> Append(arrays, Elems(arrays, folderPath)),
          slice |-> [array |-> Len(arrays) + 1, len |-> folderPath.len]]

\* extractRoutesFromItems: the routes appended (or the panic that ends the
\* walk) and the heap afterwards
RECURSIVE extractRoutesFromItems(_, _, _)
extractRoutesFromItems(items, folderPath, arrays) ==
    IF items = <<>> THEN [panicked |-> FALSE, routes |-> <<>>, arrays |-> arrays]
    ELSE LET item == Head(items)
             here ==
                 IF item.request # NilRequest
                 THEN IF RawSlicePanics(item.request.url)
                      THEN [panicked |-> TRUE, routes |-> <<>>, arrays |-> arrays]
                      ELSE LET copied == CopyFolderPath(arrays, folderPath)
                           IN [panicked |-> FALSE,
                               routes |-> <<[method |-> item.request.method,
                                             path |-> extractPathFromURL(item.request.url),
                                             name |-> item.name,
                                             description |-> item.description,
                                             folderPath |-> copied.slice]>>,
                               arrays |-> copied.arrays]
                 ELSE IF Len(item.items) > 0
                      THEN LET newFolderPath == GoAppend(arrays, folderPath, item.name)
                           IN extractRoutesFromItems(item.items, newFolderPath.slice,
                                                     newFolderPath.arrays)
                      ELSE [panicked |-> FALSE, routes |-> <<>>, arrays |-> arrays]
         IN IF here.panicked THEN here
            ELSE LET rest == extractRoutesFromItems(Tail(items), folderPath,
                                                    here.arrays)
                 IN [panicked |-> rest.panicked,
                     routes |-> here.routes \o rest.routes,
                     arrays |-> rest.arrays]

\* extractRoutesFromCollection: the routes as the caller reads them
extractRoutesFromCollection(items) ==
    LET walked == extractRoutesFromItems(items, EmptySlice, <<>>)
    IN [panicked |-> walked.panicked,
        routes |-> [i \in 1..Len(walked.routes) |->
                       [walked.routes[i] EXCEPT
                           !.folderPath = Elems(walked.arrays, @)]]]

-----------------------------------------------------------------------------
(* Errors.  An error value is its Error() text and its dynamic type.       *)

NoError == [nil |-> TRUE]

\* a *pkgerrors.AppError of the given ErrorType
AppError(type, message) == [message |-> message, type |-> type, wrapped |-> FALSE]

\* fmt.Errorf(prefix + ": %w", e): a *fmt.wrapError around e
WrapError(prefix, e) ==
    [message |-> prefix \o ": " \o e.message, type |-> e.type, wrapped |-> TRUE]

\* the panic of a slice expression out of range
SlicePanic(n) == [message |-> "runtime error: slice bounds out of range [:" \o n \o "]",
                  type |-> "panic", wrapped |-> FALSE]

\* what the oracle client returns on failure
OracleErrors ==
    {AppError("validation", "invalid analysis request"),
     AppError("unauthorized", "Invalid Claude API key"),
     AppError("rate_limit", "Rate limit exceeded for claude"),
     AppError("unavailable", "Service claude is unavailable"),
     AppError("external", "context deadline exceeded")}

\* what GetCollection and putCollection return on failure
PostmanErrors ==
    {AppError("not_found", "Collection not found"),
     AppError("external", "context deadline exceeded")}

\* the failures of the fetch that UpdateCollection starts with
FetchErrors == {AppError("not_found", "Collection not found")}

\* a failed PUT whose request may have reached the server before the error
MayHaveBeenApplied(e) == e.type = "external"

-----------------------------------------------------------------------------
(* Inputs: the routes the oracle may name and the collections the store    *)
(* may hold at the start.                                                  *)

UsersRoute == APIRoute("GET", "/api/v1/users", "List users")
OrdersRoute == APIRoute("POST", "/api/v1/orders", "")

Routes == {UsersRoute, OrdersRoute}

\* a route whose display name "GET /health" is shorter than the tag
HealthRoute == APIRoute("GET", "/health", "Liveness probe")

UsersRequest ==
    PostmanRequest("GET", "{{baseUrl}}/api/v1/users", <<BaseUrl, "api/v1/users">>, "")

\* an item named after its templated URL
TemplatedUsersItem ==
    PostmanItem("GET {{baseUrl}}/api/v1/users", "", UsersRequest, <<>>)

\* an item a person named, shorter than the tag
HandNamedUsersItem == PostmanItem("Users", "Lists the users", UsersRequest, <<>>)

\* an item that has the route's display name and no request
NamedOnlyUsersItem == PostmanItem("GET /api/v1/users", "Stub", NilRequest, <<>>)

\* an item whose raw URL is a bare path, shorter than the placeholder
HealthItem ==
    PostmanItem("Health", "Liveness probe",
                PostmanRequest("GET", "/health", <<"health">>, ""), <<>>)

Folder(name, children) == PostmanItem(name, "", NilRequest, children)

InitialCollections ==
    {<<>>,
     <<TemplatedUsersItem>>,
     <<convertRouteToPostmanItem(UsersRoute)>>,
     <<HandNamedUsersItem>>,
     <<Folder("Users", <<Folder("v1", <<convertRouteToPostmanItem(UsersRoute)>>)>>)>>,
     <<NamedOnlyUsersItem, TemplatedUsersItem>>,
     <<HealthItem>>,
     <<Folder("Users", <<convertRouteToPostmanItem(UsersRoute)>>), TemplatedUsersItem>>}

SeqsUpTo(S, n) == UNION {[1..k -> S] : k \in 0..n}

ChangeCount(cs) ==
    Len(cs.newRoutes) + Len(cs.modifiedRoutes) + Len(cs.deletedRoutes)

\* change sets that name the short route, once per list at most
ShortRouteChangeSets ==
    {cs \in [newRoutes : SeqsUpTo({HealthRoute}, 1),
             modifiedRoutes : SeqsUpTo({HealthRoute}, 1),
             deletedRoutes : SeqsUpTo({HealthRoute}, 1)] :
        ChangeCount(cs) \in {1, 2}}

\* the oracle's three lists, at most MaxChanges entries in all
ChangeSets ==
    {cs \in [newRoutes : SeqsUpTo(Routes, MaxChanges),
             modifiedRoutes : SeqsUpTo(Routes, MaxChanges),
             deletedRoutes : SeqsUpTo(Routes, MaxChanges)] :
        ChangeCount(cs) <= MaxChanges}
    \cup ShortRouteChangeSets

\* summary and confidence (in hundredths; the oracle is not held to [0,1])
OracleMeta ==
    {[summary |-> "Users API changed", confidence |-> 85],
     [summary |-> "", confidence |-> 150]}

PRActions == {"opened", "closed"}

-----------------------------------------------------------------------------
(* AnalyzerService.AnalyzePR and Client.UpdateCollection, step by step.    *)

shouldProcessAction(action) == action \in {"opened", "synchronize", "reopened"}

\* a test that finds changes in every response
hasAPIChangesAlways(resp) == Len(resp.newRoutes) >= 0

\* part_004 316-318
hasAPIChanges(resp) ==
    Len(resp.newRoutes) > 0 \/ Len(resp.modifiedRoutes) > 0
        \/ Len(resp.deletedRoutes) > 0

NoCalls == [oracle |-> 0, get |-> 0, update |-> 0, put |-> 0]

\* nothing written to the http.ResponseWriter yet
NoResponse == [handler |-> "", statusCode |-> 0]

\* the range loop that runs after entry i of the list `phase` is done
NextPosition(resp, phase, i) ==
    LET after(ph) == CASE ph = "new" -> "modified"
                       [] ph = "modified" -> "deleted"
                       [] OTHER -> "put"
        list(ph) == CASE ph = "new" -> resp.newRoutes
                      [] ph = "modified" -> resp.modifiedRoutes
                      [] ph = "deleted" -> resp.deletedRoutes
                      [] OTHER -> <<>>
        first(ph) == IF ph = "put" \/ Len(list(ph)) > 0 THEN ph
                     ELSE IF after(ph) = "put" \/ Len(list(after(ph))) > 0
                          THEN after(ph)
                          ELSE IF after(after(ph)) = "put"
                                  \/ Len(list(after(after(ph)))) > 0
                               THEN after(after(ph))
                               ELSE "put"
    IN IF phase # "start" /\ i < Len(list(phase))
       THEN [pc |-> phase, idx |-> i + 1]
       ELSE LET ph == first(IF phase = "start" THEN "new" ELSE after(phase))
            IN [pc |-> ph, idx |-> IF ph = "put" THEN 0 ELSE 1]

\* NewTokenManager: an empty map, the lock free, every goroutine idle
NoSession == [nil |-> TRUE]

Tokens == 1..MaxSessions

Clients == {"c1", "c2"}

Sweeper == "sweep"

IdleProc == [pc |-> "idle", token |-> 0, expiresAt |-> 0, found |-> FALSE,
             at |-> 0, visible |-> FALSE, expired |-> {}]

NotIssued == [state |-> "unused", createdAt |-> 0, expiresAt |-> 0,
              invalidated |-> FALSE, overlapped |-> FALSE]

TokenManagerNew ==
    /\ sessions = [tok \in Tokens |-> NoSession]
    /\ mu = [writer |-> "none", readers |-> {}]
    /\ now = 0
    /\ procs = [p \in Clients \cup {Sweeper} |-> IdleProc]
    /\ issued = [tok \in Tokens |-> NotIssued]

\* no input drawn for the converter and the extractor
ExtractorUnused ==
    /\ xroute = APIRoute("", "", "")
    /\ xtree = <<>>
    /\ xroutes = [panicked |-> FALSE, routes |-> <<>>]
    /\ xpc = "unused"

\* no goroutine runs UpdateCollection beside the pipeline
Updaters == {"u1", "u2"}

NoAnalysis == [newRoutes |-> <<>>, modifiedRoutes |-> <<>>, deletedRoutes |-> <<>>]

IdleUpdater == [pc |-> "idle", analysis |-> NoAnalysis, collection |-> <<>>,
                update |-> ZeroPostmanUpdate]

ConcurrentUnused ==
    /\ remote = <<>>
    /\ updaters = [u \in Updaters |-> IdleUpdater]

\* no request at the web analysis handler
NoRequest == [pc |-> "idle", served |-> 0, method |-> "", authorization |-> "",
              token |-> "", live |-> FALSE, statusCode |-> 0, calls |-> 0]

WebUnused == web = NoRequest

Init ==
    /\ TokenManagerNew
    /\ ExtractorUnused
    /\ ConcurrentUnused
    /\ WebUnused
    /\ store \in InitialCollections
    /\ event = 0
    /\ pc = "idle"
    /\ analysisReq = [existingRoutes |-> <<>>]
    /\ analysisResp = NilResponse
    /\ collection = <<>>
    /\ update = ZeroPostmanUpdate
    /\ idx = 0
    /\ err = NoError
    /\ original = <<>>
    /\ oracle = [status |-> "none"]
    /\ calls = NoCalls
    /\ named = 0
    /\ updateErr = NoError
    /\ contextErr = NoError
    /\ response = NoResponse

\* lines 32-52 and 199-204: a new event; the action filter and the diff fetch.
\* In the revision without collection context (internal/services/analyzer.go)
\* the diff is embedded and the oracle is called next.
AnalyzePRBegin(action, withContext, diffFetched) ==
    /\ pc \in {"idle", "returned", "panic"}
    /\ ~withContext => diffFetched            \* no diff fetch in that revision
    /\ ~shouldProcessAction(action) => withContext /\ diffFetched
    /\ event < MaxEvents
    /\ event' = event + 1
    /\ analysisReq' = [existingRoutes |-> <<>>]
    /\ collection' = <<>>
    /\ update' = ZeroPostmanUpdate
    /\ idx' = 0
    /\ original' = <<>>
    /\ oracle' = [status |-> "none"]
    /\ calls' = NoCalls
    /\ updateErr' = NoError
    /\ contextErr' = NoError
    /\ response' = NoResponse
    /\ IF ~shouldProcessAction(action)
       THEN /\ analysisResp' = [newRoutes |-> <<>>, modifiedRoutes |-> <<>>,
                                deletedRoutes |-> <<>>,
                                summary |-> "Skipped action: " \o action,
                                confidence |-> 0,
                                postmanUpdate |-> ZeroPostmanUpdate]
            /\ err' = NoError
            /\ pc' = "returned"
       ELSE IF withContext /\ ~diffFetched
            THEN /\ analysisResp' = NilResponse
                 /\ err' = [message |-> "failed to fetch PR diff: http request failed",
                            type |-> "", wrapped |-> TRUE]
                 /\ pc' = "returned"
            ELSE /\ analysisResp' = NilResponse
                 /\ err' = NoError
                 /\ pc' = IF withContext THEN "context" ELSE "oracle"
    /\ UNCHANGED <<store, named>>
    /\ UNCHANGED <<tokenVars, extractVars, concurrentVars, webVars>>

\* a context fetch whose failure ends AnalyzePR with that error
GetContextAborts(fetched) ==
    /\ pc = "context"
    /\ IF ~fetched
       THEN /\ pc' = "returned"
            /\ contextErr' = AppError("not_found", "Collection not found")
            /\ err' = WrapError("failed to get collection",
                                AppError("not_found", "Collection not found"))
            /\ UNCHANGED analysisReq
       ELSE /\ pc' = "oracle"
            /\ analysisReq' =
                  [existingRoutes |-> extractRoutesFromCollection(store).routes]
            /\ UNCHANGED <<err, contextErr>>
    /\ UNCHANGED <<response, updateErr, named, store, event, analysisResp,
                   collection, update, idx, original, oracle, calls>>
    /\ UNCHANGED <<tokenVars, extractVars, concurrentVars, webVars>>

\* lines 206-217: the collection is fetched for context; a failure is logged
\* and the call goes on without context
GetContext(fetched) ==
    /\ pc = "context"
    /\ IF ~fetched
       THEN /\ pc' = "oracle"
            /\ contextErr' = AppError("not_found", "Collection not found")
            /\ UNCHANGED <<analysisReq, err>>
       ELSE LET extracted == extractRoutesFromCollection(store)
            IN IF extracted.panicked
               THEN /\ pc' = "panic"
                    /\ err' = SlicePanic("11")
                    /\ UNCHANGED <<analysisReq, contextErr>>
               ELSE /\ pc' = "oracle"
                    /\ analysisReq' = [existingRoutes |-> extracted.routes]
                    /\ UNCHANGED <<err, contextErr>>
    /\ UNCHANGED <<response, updateErr, named, store, event, analysisResp, collection, update, idx,
                   original, oracle, calls>>
    /\ UNCHANGED <<tokenVars, extractVars, concurrentVars, webVars>>

\* an oracle failure answered with an empty analysis instead of the error
ClaudeFailsReturnsEmpty(e) ==
    /\ pc = "oracle"
    /\ calls' = [calls EXCEPT !.oracle = @ + 1]
    /\ oracle' = [status |-> "error", error |-> e]
    /\ analysisResp' = [newRoutes |-> <<>>, modifiedRoutes |-> <<>>,
                        deletedRoutes |-> <<>>, summary |-> "", confidence |-> 0,
                        postmanUpdate |-> [ZeroPostmanUpdate EXCEPT
                                              !.status = "skipped"]]
    /\ analysisReq' = [existingRoutes |-> <<>>]
    /\ contextErr' = NoError
    /\ pc' = "returned"
    /\ UNCHANGED <<response, updateErr, named, store, event, collection, update, idx, err, original>>
    /\ UNCHANGED <<tokenVars, extractVars, concurrentVars, webVars>>

\* lines 219-224: the oracle fails and AnalyzePR returns its error
ClaudeFails(e) ==
    /\ pc = "oracle"
    /\ calls' = [calls EXCEPT !.oracle = @ + 1]
    /\ oracle' = [status |-> "error", error |-> e]
    /\ analysisResp' = NilResponse
    /\ err' = WrapError("claude analysis failed", e)
    /\ analysisReq' = [existingRoutes |-> <<>>]     \* not read after the call
    /\ contextErr' = NoError                       \* err is assigned again
    /\ pc' = "returned"
    /\ UNCHANGED <<response, updateErr, named, store, event, collection, update, idx, original>>
    /\ UNCHANGED <<tokenVars, extractVars, concurrentVars, webVars>>

\* lines 219-227 and 246-252: the oracle answers; without changes the update
\* is skipped and AnalyzePR returns
ClaudeAnswers(changes, meta) ==
    /\ pc = "oracle"
    /\ named + ChangeCount(changes) <= MaxChanges
    /\ named' = named + ChangeCount(changes)
    /\ calls' = [calls EXCEPT !.oracle = @ + 1]
    /\ LET resp == [newRoutes |-> changes.newRoutes,
                    modifiedRoutes |-> changes.modifiedRoutes,
                    deletedRoutes |-> changes.deletedRoutes,
                    summary |-> meta.summary,
                    confidence |-> meta.confidence,
                    postmanUpdate |-> ZeroPostmanUpdate]
       IN /\ oracle' = [status |-> "ok", response |-> resp]
          /\ IF hasAPIChanges(resp)
             THEN /\ analysisResp' = resp
                  /\ pc' = "update"
             ELSE /\ analysisResp' =
                        [resp EXCEPT !.postmanUpdate =
                            [ZeroPostmanUpdate EXCEPT !.status = "skipped"]]
                  /\ pc' = "returned"
    /\ analysisReq' = [existingRoutes |-> <<>>]     \* not read after the call
    /\ contextErr' = NoError                       \* err is assigned again
    /\ UNCHANGED <<response, updateErr, store, event, collection, update, idx, err, original>>
    /\ UNCHANGED <<tokenVars, extractVars, concurrentVars, webVars>>

\* lines 234-242 and client.go 152-159: UpdateCollection starts and its fetch
\* fails; AnalyzePR records the error and returns the analysis
UpdateGetFails(e) ==
    /\ pc = "update"
    /\ calls' = [calls EXCEPT !.update = @ + 1, !.get = @ + 1]
    /\ analysisResp' =
          [analysisResp EXCEPT !.postmanUpdate =
              [ZeroPostmanUpdate EXCEPT
                  !.status = "error",
                  !.errorMessage = WrapError("failed to get collection", e).message]]
    /\ updateErr' = WrapError("failed to get collection", e)
    /\ pc' = "returned"
    /\ UNCHANGED <<response, contextErr, named, store, event, analysisReq, collection, update, idx, err,
                   original, oracle>>
    /\ UNCHANGED <<tokenVars, extractVars, concurrentVars, webVars>>

\* client.go 152-159 and 250-254: the collection is fetched and the summary
\* object created; the first non-empty loop is next
UpdateGetCollection ==
    /\ pc = "update"
    /\ calls' = [calls EXCEPT !.update = @ + 1, !.get = @ + 1]
    /\ collection' = store
    /\ original' = store
    /\ update' = [ZeroPostmanUpdate EXCEPT !.collectionID = CollectionID,
                                           !.status = "success"]
    /\ LET next == NextPosition(analysisResp, "start", 0)
       IN pc' = next.pc /\ idx' = next.idx
    /\ UNCHANGED <<response, contextErr, updateErr, named, store, event, analysisReq, analysisResp, err, oracle>>
    /\ UNCHANGED <<tokenVars, extractVars, concurrentVars, webVars>>

\* a new route put in front of the root list
PrependNewItem(items, route) == <<convertRouteToPostmanItem(route)>> \o items

\* client.go 258-259: collection.Items = append(collection.Items, item)
AppendNewItem(items, route) == Append(items, convertRouteToPostmanItem(route))

\* an iteration over NewRoutes that appends the item and counts nothing
AddNewRouteUncounted ==
    /\ pc = "new"
    /\ LET route == analysisResp.newRoutes[idx]
           next == NextPosition(analysisResp, "new", idx)
       IN /\ collection' = AppendNewItem(collection, route)
          /\ pc' = next.pc /\ idx' = next.idx
    /\ UNCHANGED <<response, contextErr, updateErr, named, store, event, analysisReq,
                   analysisResp, err, original, oracle, calls, update>>
    /\ UNCHANGED <<tokenVars, extractVars, concurrentVars, webVars>>

\* client.go 257-261: one iteration of the loop over NewRoutes
AddNewRoute ==
    /\ pc = "new"
    /\ LET route == analysisResp.newRoutes[idx]
           next == NextPosition(analysisResp, "new", idx)
       IN /\ collection' = AppendNewItem(collection, route)
          /\ update' = [update EXCEPT !.itemsAdded = @ + 1]
          /\ pc' = next.pc /\ idx' = next.idx
    /\ UNCHANGED <<response, contextErr, updateErr, named, store, event, analysisReq, analysisResp, err, original,
                   oracle, calls>>
    /\ UNCHANGED <<tokenVars, extractVars, concurrentVars, webVars>>

\* client.go 264-273: one iteration of the loop over ModifiedRoutes
UpdateModifiedRoute ==
    /\ pc = "modified"
    /\ LET route == analysisResp.modifiedRoutes[idx]
           done == updateExistingItem(collection, route)
           next == NextPosition(analysisResp, "modified", idx)
       IN /\ IF done.found
             THEN /\ collection' = done.items
                  /\ update' = [update EXCEPT !.itemsModified = @ + 1]
             ELSE /\ collection' = AppendNewItem(collection, route)
                  /\ update' = [update EXCEPT !.itemsAdded = @ + 1]
          /\ pc' = next.pc /\ idx' = next.idx
    /\ UNCHANGED <<response, contextErr, updateErr, named, store, event, analysisReq, analysisResp, err, original,
                   oracle, calls>>
    /\ UNCHANGED <<tokenVars, extractVars, concurrentVars, webVars>>

\* client.go 276-280: one iteration of the loop over DeletedRoutes; a panic in
\* markItemAsDeprecated unwinds UpdateCollection and AnalyzePR
MarkDeletedRoute ==
    /\ pc = "deleted"
    /\ LET route == analysisResp.deletedRoutes[idx]
           done == markItemAsDeprecated(collection, route)
           next == NextPosition(analysisResp, "deleted", idx)
       IN /\ collection' = done.items
          /\ IF done.panicked
             THEN /\ pc' = "panic"
                  /\ err' = SlicePanic("12")
                  /\ UNCHANGED <<update, idx>>
             ELSE /\ update' = IF done.found
                               THEN [update EXCEPT !.itemsModified = @ + 1]
                               ELSE update
                  /\ pc' = next.pc /\ idx' = next.idx
                  /\ UNCHANGED err
    /\ UNCHANGED <<response, contextErr, updateErr, named, store, event, analysisReq, analysisResp, original, oracle,
                   calls>>
    /\ UNCHANGED <<tokenVars, extractVars, concurrentVars, webVars>>

\* client.go 168-179 and lines 243-245: the mutated collection is saved and
\* the summary becomes the analysis' postman_update
PutCollection ==
    /\ pc = "put"
    /\ calls' = [calls EXCEPT !.put = @ + 1]
    /\ store' = collection
    /\ analysisResp' = [analysisResp EXCEPT !.postmanUpdate = update]
    /\ pc' = "returned"
    /\ UNCHANGED <<response, contextErr, updateErr, named, event, analysisReq, collection, update, idx, err, original,
                   oracle>>
    /\ UNCHANGED <<tokenVars, extractVars, concurrentVars, webVars>>

\* a failed save answered with a fresh response object that keeps the routes
PutFailsFreshResponse(e, applied) ==
    /\ pc = "put"
    /\ applied => MayHaveBeenApplied(e)
    /\ calls' = [calls EXCEPT !.put = @ + 1]
    /\ store' = IF applied THEN collection ELSE store
    /\ analysisResp' =
          [newRoutes |-> analysisResp.newRoutes,
           modifiedRoutes |-> analysisResp.modifiedRoutes,
           deletedRoutes |-> analysisResp.deletedRoutes,
           summary |-> "", confidence |-> 0,
           postmanUpdate |-> [ZeroPostmanUpdate EXCEPT !.status = "error"]]
    /\ updateErr' = WrapError("failed to save updated collection", e)
    /\ pc' = "returned"
    /\ UNCHANGED <<response, contextErr, named, event, analysisReq, collection, update, idx, err, original,
                   oracle>>
    /\ UNCHANGED <<tokenVars, extractVars, concurrentVars, webVars>>

\* a failed save that makes AnalyzePR fail
PutFailsAborts(e, applied) ==
    /\ pc = "put"
    /\ applied => MayHaveBeenApplied(e)
    /\ calls' = [calls EXCEPT !.put = @ + 1]
    /\ store' = IF applied THEN collection ELSE store
    /\ analysisResp' = NilResponse
    /\ updateErr' = WrapError("failed to save updated collection", e)
    /\ err' = WrapError("failed to save updated collection", e)
    /\ pc' = "returned"
    /\ UNCHANGED <<response, contextErr, named, event, analysisReq, collection,
                   update, idx, original, oracle>>
    /\ UNCHANGED <<tokenVars, extractVars, concurrentVars, webVars>>

\* client.go 168-170 and lines 235-242: the save fails; the request may have
\* been carried out by the server before the client saw the failure
PutFails(e, applied) ==
    /\ pc = "put"
    /\ applied => MayHaveBeenApplied(e)
    /\ calls' = [calls EXCEPT !.put = @ + 1]
    /\ store' = IF applied THEN collection ELSE store
    /\ analysisResp' =
          [analysisResp EXCEPT !.postmanUpdate =
              [ZeroPostmanUpdate EXCEPT
                  !.status = "error",
                  !.errorMessage =
                      WrapError("failed to save updated collection", e).message]]
    /\ updateErr' = WrapError("failed to save updated collection", e)
    /\ pc' = "returned"
    /\ UNCHANGED <<response, contextErr, named, event, analysisReq, collection, update, idx, err, original,
                   oracle>>
    /\ UNCHANGED <<tokenVars, extractVars, concurrentVars, webVars>>

\* pkg/errors AsAppError: a type assertion on the error value itself, which
\* holds for a *AppError and not for the *fmt.wrapError around one
AsAppError(e) == e # NoError /\ ~e.wrapped /\ e.type # "panic"

\* the switch of the manual and the web handler on the error of AnalyzePR
handlerStatusCode(e) ==
    IF AsAppError(e)
    THEN CASE e.type = "validation" -> 400
           [] e.type = "unauthorized" -> 401
           [] e.type = "rate_limit" -> 429
           [] e.type = "unavailable" -> 503
           [] OTHER -> 500
    ELSE 500

\* the handlers that map the error of AnalyzePR to a status
Handlers == {"manual", "web"}

\* part_001 151-174 and web_analyze.go 113-136: AnalyzePR returned an error
\* and the handler writes the error response
WriteErrorResponse(handler) ==
    /\ pc = "returned"
    /\ err # NoError
    /\ response = NoResponse
    /\ response' = [handler |-> handler, statusCode |-> handlerStatusCode(err)]
    /\ UNCHANGED <<contextErr, updateErr, named, store, event, pc, analysisReq,
                   analysisResp, collection, update, idx, err, original, oracle,
                   calls>>
    /\ UNCHANGED <<tokenVars, extractVars, concurrentVars, webVars>>

Next ==
    \/ \E action \in PRActions, withContext \in BOOLEAN, diffFetched \in BOOLEAN :
          AnalyzePRBegin(action, withContext, diffFetched)
    \/ \E fetched \in BOOLEAN : GetContext(fetched)
    \/ \E e \in OracleErrors : ClaudeFails(e)
    \/ \E changes \in ChangeSets, meta \in OracleMeta : ClaudeAnswers(changes, meta)
    \/ \E e \in FetchErrors : UpdateGetFails(e)
    \/ UpdateGetCollection
    \/ AddNewRoute
    \/ UpdateModifiedRoute
    \/ MarkDeletedRoute
    \/ PutCollection
    \/ \E e \in PostmanErrors, applied \in BOOLEAN : PutFails(e, applied)
    \/ \E handler \in Handlers : WriteErrorResponse(handler)

Spec == Init /\ [][Next]_vars

-----------------------------------------------------------------------------
(* TokenManager (internal/services/token_manager.go): goroutines that call *)
(* CreateSession, GetSession and InvalidateSession, and the goroutine that *)
(* runs performCleanup on every tick of its ticker.  Time is counted in    *)
(* half hours; the ticker's period is shorter than that unit, so a sweep   *)
(* may start at any reading of the clock.                                  *)

\* TokenTTL = 1 * time.Hour
TokenTTL == 2

\* the analysis pipeline at rest
PipelineUnused ==
    /\ store = <<>>
    /\ event = 0
    /\ pc = "idle"
    /\ analysisReq = [existingRoutes |-> <<>>]
    /\ analysisResp = NilResponse
    /\ collection = <<>>
    /\ update = ZeroPostmanUpdate
    /\ idx = 0
    /\ err = NoError
    /\ original = <<>>
    /\ oracle = [status |-> "none"]
    /\ calls = NoCalls
    /\ named = 0
    /\ updateErr = NoError
    /\ contextErr = NoError
    /\ response = NoResponse

TokenInit ==
    /\ PipelineUnused
    /\ ExtractorUnused
    /\ ConcurrentUnused
    /\ WebUnused
    /\ TokenManagerNew

\* sync.RWMutex: Lock waits for the writer and all readers, RLock for the writer
CanLock == mu.writer = "none" /\ mu.readers = {}
CanRLock == mu.writer = "none"

\* time.Time.After
After(t, u) == t > u

\* generateToken: 32 random bytes; a token that was not generated before
FreshToken(tok) ==
    /\ issued[tok].state = "unused"
    /\ \A other \in Tokens : other < tok => issued[other].state # "unused"

\* lines 40-53: the token is generated, the clock read, the session built
CreateSessionBegin(c, tok) ==
    /\ procs[c].pc = "idle"
    /\ FreshToken(tok)
    /\ procs' = [procs EXCEPT ![c] = [IdleProc EXCEPT !.pc = "create_lock",
                                                     !.token = tok,
                                                     !.at = now,
                                                     !.expiresAt = now + TokenTTL]]
    /\ issued' = [issued EXCEPT ![tok] =
                    [state |-> "generated", createdAt |-> now,
                     expiresAt |-> now + TokenTTL, invalidated |-> FALSE,
                     overlapped |-> \E d \in Clients \ {c} :
                                      procs[d].pc \in {"create_lock",
                                                       "create_store"}]]
    /\ UNCHANGED <<sessions, mu, now>>
    /\ UNCHANGED <<pipelineVars, extractVars, concurrentVars, webVars>>

\* line 55: tm.mu.Lock()
CreateSessionLock(c) ==
    /\ procs[c].pc = "create_lock"
    /\ CanLock
    /\ mu' = [mu EXCEPT !.writer = c]
    /\ procs' = [procs EXCEPT ![c].pc = "create_store"]
    /\ UNCHANGED <<sessions, now, issued>>
    /\ UNCHANGED <<pipelineVars, extractVars, concurrentVars, webVars>>

\* a store that writes a map holding this session only
CreateSessionStoreLossy(c) ==
    /\ procs[c].pc = "create_store"
    /\ sessions' = [tok \in Tokens |->
                      IF tok = procs[c].token
                      THEN [createdAt |-> procs[c].at,
                            expiresAt |-> procs[c].expiresAt]
                      ELSE NoSession]
    /\ mu' = [mu EXCEPT !.writer = "none"]
    /\ issued' = [issued EXCEPT ![procs[c].token].state = "returned"]
    /\ procs' = [procs EXCEPT ![c] = IdleProc]
    /\ UNCHANGED now
    /\ UNCHANGED <<pipelineVars, extractVars, concurrentVars, webVars>>

\* lines 56-61: the session is stored, the lock released, the token returned
CreateSessionStore(c) ==
    /\ procs[c].pc = "create_store"
    /\ sessions' = [sessions EXCEPT ![procs[c].token] =
                      [createdAt |-> procs[c].at,
                       expiresAt |-> procs[c].expiresAt]]
    /\ mu' = [mu EXCEPT !.writer = "none"]
    /\ issued' = [issued EXCEPT ![procs[c].token].state = "returned"]
    /\ procs' = [procs EXCEPT ![c] = IdleProc]
    /\ UNCHANGED now
    /\ UNCHANGED <<pipelineVars, extractVars, concurrentVars, webVars>>

\* line 64: GetSession is called with a token that was generated
GetSessionBegin(c, tok) ==
    /\ procs[c].pc = "idle"
    /\ issued[tok].state # "unused"
    /\ procs' = [procs EXCEPT ![c] =
                   [IdleProc EXCEPT !.pc = "get_rlock", !.token = tok,
                                    !.visible = (issued[tok].state = "returned")]]
    /\ UNCHANGED <<sessions, mu, now, issued>>
    /\ UNCHANGED <<pipelineVars, extractVars, concurrentVars, webVars>>

\* line 65: tm.mu.RLock()
GetSessionRLock(c) ==
    /\ procs[c].pc = "get_rlock"
    /\ CanRLock
    /\ mu' = [mu EXCEPT !.readers = @ \cup {c}]
    /\ procs' = [procs EXCEPT ![c].pc = "get_read"]
    /\ UNCHANGED <<sessions, now, issued>>
    /\ UNCHANGED <<pipelineVars, extractVars, concurrentVars, webVars>>

\* a lookup that does not look at the expiry
GetSessionReadNoExpiry(c) ==
    /\ procs[c].pc = "get_read"
    /\ procs' = [procs EXCEPT ![c].pc = "get_return",
                              ![c].at = now,
                              ![c].found = sessions[procs[c].token] # NoSession]
    /\ UNCHANGED <<sessions, mu, now, issued>>
    /\ UNCHANGED <<pipelineVars, extractVars, concurrentVars, webVars>>

\* lines 68-77: the lookup and the expiry test against time.Now()
GetSessionRead(c) ==
    /\ procs[c].pc = "get_read"
    /\ LET session == sessions[procs[c].token]
           exists == session # NoSession
       IN procs' = [procs EXCEPT
                       ![c].pc = "get_return",
                       ![c].at = now,
                       ![c].found = IF ~exists THEN FALSE
                                    ELSE ~After(now, session.expiresAt)]
    /\ UNCHANGED <<sessions, mu, now, issued>>
    /\ UNCHANGED <<pipelineVars, extractVars, concurrentVars, webVars>>

\* line 66: the deferred tm.mu.RUnlock(), and the return
GetSessionReturn(c) ==
    /\ procs[c].pc = "get_return"
    /\ mu' = [mu EXCEPT !.readers = @ \ {c}]
    /\ procs' = [procs EXCEPT ![c] = IdleProc]
    /\ UNCHANGED <<sessions, now, issued>>
    /\ UNCHANGED <<pipelineVars, extractVars, concurrentVars, webVars>>

\* lines 80-82: InvalidateSession of a token a caller was given; tm.mu.Lock()
InvalidateSessionLock(c, tok) ==
    /\ procs[c].pc = "idle"
    /\ issued[tok].state = "returned"
    /\ ~issued[tok].invalidated
    /\ CanLock
    /\ mu' = [mu EXCEPT !.writer = c]
    /\ procs' = [procs EXCEPT ![c] = [IdleProc EXCEPT !.pc = "invalidate",
                                                     !.token = tok]]
    /\ issued' = [issued EXCEPT ![tok].invalidated = TRUE]
    /\ UNCHANGED <<sessions, now>>
    /\ UNCHANGED <<pipelineVars, extractVars, concurrentVars, webVars>>

\* lines 84-86: delete(tm.sessions, token) and the deferred Unlock
InvalidateSessionDelete(c) ==
    /\ procs[c].pc = "invalidate"
    /\ sessions' = [sessions EXCEPT ![procs[c].token] = NoSession]
    /\ mu' = [mu EXCEPT !.writer = "none"]
    /\ procs' = [procs EXCEPT ![c] = IdleProc]
    /\ UNCHANGED <<now, issued>>
    /\ UNCHANGED <<pipelineVars, extractVars, concurrentVars, webVars>>

\* lines 106-107 and 115: the ticker fires; performCleanup takes the lock
SweepLock ==
    /\ procs[Sweeper].pc = "idle"
    /\ CanLock
    /\ mu' = [mu EXCEPT !.writer = Sweeper]
    /\ procs' = [procs EXCEPT ![Sweeper].pc = "scan"]
    /\ UNCHANGED <<sessions, now, issued>>
    /\ UNCHANGED <<pipelineVars, extractVars, concurrentVars, webVars>>

\* a scan that collects every session older than the last reading of the clock
SweepScanByAge ==
    /\ procs[Sweeper].pc = "scan"
    /\ procs' = [procs EXCEPT
                    ![Sweeper].pc = "delete",
                    ![Sweeper].expired =
                        {tok \in Tokens : /\ sessions[tok] # NoSession
                                          /\ After(now, sessions[tok].createdAt)}]
    /\ UNCHANGED <<sessions, mu, now, issued>>
    /\ UNCHANGED <<pipelineVars, extractVars, concurrentVars, webVars>>

\* lines 118-125: the clock is read and the expired tokens are collected
SweepScan ==
    /\ procs[Sweeper].pc = "scan"
    /\ procs' = [procs EXCEPT
                    ![Sweeper].pc = "delete",
                    ![Sweeper].expired =
                        {tok \in Tokens : /\ sessions[tok] # NoSession
                                          /\ After(now, sessions[tok].expiresAt)}]
    /\ UNCHANGED <<sessions, mu, now, issued>>
    /\ UNCHANGED <<pipelineVars, extractVars, concurrentVars, webVars>>

\* lines 127-133: the collected tokens are deleted; the deferred Unlock
SweepDelete ==
    /\ procs[Sweeper].pc = "delete"
    /\ sessions' = [tok \in Tokens |->
                      IF tok \in procs[Sweeper].expired THEN NoSession
                      ELSE sessions[tok]]
    /\ mu' = [mu EXCEPT !.writer = "none"]
    /\ procs' = [procs EXCEPT ![Sweeper] = IdleProc]
    /\ UNCHANGED <<now, issued>>
    /\ UNCHANGED <<pipelineVars, extractVars, concurrentVars, webVars>>

\* time passes
Tick ==
    /\ now < MaxTime
    /\ now' = now + 1
    /\ UNCHANGED <<sessions, mu, procs, issued>>
    /\ UNCHANGED <<pipelineVars, extractVars, concurrentVars, webVars>>

TokenNext ==
    \/ \E c \in Clients, tok \in Tokens : CreateSessionBegin(c, tok)
    \/ \E c \in Clients : CreateSessionLock(c)
    \/ \E c \in Clients : CreateSessionStore(c)
    \/ \E c \in Clients, tok \in Tokens : GetSessionBegin(c, tok)
    \/ \E c \in Clients : GetSessionRLock(c)
    \/ \E c \in Clients : GetSessionRead(c)
    \/ \E c \in Clients : GetSessionReturn(c)
    \/ \E c \in Clients, tok \in Tokens : InvalidateSessionLock(c, tok)
    \/ \E c \in Clients : InvalidateSessionDelete(c)
    \/ SweepLock
    \/ SweepScan
    \/ SweepDelete
    \/ Tick

TokenSpec == TokenInit /\ [][TokenNext]_vars

-----------------------------------------------------------------------------
(* The converter and the extractor as functions: a route and a tree are    *)
(* drawn, the route is converted to the one item of a tree, and the        *)
(* extractor is run on the drawn tree or on the converted one.             *)

\* routes with an empty path, the root path, paths with and without a
\* leading slash
\* the header lists a route may declare: none, one, and two of which the
\* first is a Content-Type of its own
HeaderLists ==
    {<<>>,
     <<Header("X-Request-Id", NumberExample(42), "Correlation id")>>,
     <<Header("Content-Type", StringExample("text/plain"), "Body type"),
       Header("Authorization", NilExample, "")>>}

ExtractRoutes ==
    {[APIRoute(method, path, "List users") EXCEPT !.headers = headers] :
        method \in {"GET", "POST"},
        path \in {"", "/", "/a", "/api/v1/users", "users"},
        headers \in HeaderLists}

\* an item that has a request and children
RequestWithChildren ==
    PostmanItem("Users", "", UsersRequest, <<convertRouteToPostmanItem(OrdersRoute)>>)

\* a request whose raw URL is empty and whose path is given in segments
SegmentsItem(name, path) ==
    PostmanItem(name, "", PostmanRequest("GET", "", path, ""), <<>>)

SegmentsOnlyItem == SegmentsItem("Segments", <<BaseUrl, "api", "v1">>)

\* a request whose raw URL is absolute, without the placeholder
AbsoluteItem ==
    PostmanItem("Status", "",
                PostmanRequest("GET", "https://status.example.com/v1", <<"v1">>, ""),
                <<>>)

\* sibling folders at the first and at the fourth depth
DeepTree ==
    <<Folder("A", <<Folder("B", <<Folder("C",
                       <<Folder("D", <<TemplatedUsersItem>>),
                         Folder("E", <<convertRouteToPostmanItem(OrdersRoute)>>),
                         HandNamedUsersItem>>)>>),
                    Folder("F", <<TemplatedUsersItem>>)>>),
      Folder("G", <<Folder("H", <<AbsoluteItem>>), Folder("I", <<TemplatedUsersItem>>)>>)>>

ExtractTrees ==
    {<<>>,
     <<TemplatedUsersItem>>,
     <<Folder("Users", <<TemplatedUsersItem, convertRouteToPostmanItem(OrdersRoute)>>)>>,
     <<Folder("A", <<Folder("B", <<TemplatedUsersItem>>)>>),
       convertRouteToPostmanItem(OrdersRoute)>>,
     <<Folder("Empty", <<>>)>>,
     <<RequestWithChildren>>,
     <<convertRouteToPostmanItem(OrdersRoute), RequestWithChildren>>,
     <<HealthItem>>,
     <<NamedOnlyUsersItem, HandNamedUsersItem>>,
     <<SegmentsOnlyItem>>,
     <<SegmentsItem("None", <<>>), SegmentsItem("Placeholder", <<BaseUrl>>),
       SegmentsItem("Two", <<"api", "v1">>)>>,
     <<SegmentsItem("Single", <<"health">>)>>,
     <<AbsoluteItem, TemplatedUsersItem>>,
     DeepTree}

ExtractInit ==
    /\ PipelineUnused
    /\ TokenManagerNew
    /\ ConcurrentUnused
    /\ WebUnused
    /\ xroute \in ExtractRoutes
    /\ xtree \in ExtractTrees
    /\ xroutes = [panicked |-> FALSE, routes |-> <<>>]
    /\ xpc = "drawn"

\* client.go 285-382: the route becomes the only item of the tree
ToItem ==
    /\ xpc = "drawn"
    /\ xtree' = <<convertRouteToPostmanItem(xroute)>>
    /\ xpc' = "converted"
    /\ UNCHANGED <<xroute, xroutes>>
    /\ UNCHANGED <<pipelineVars, tokenVars, concurrentVars, webVars>>

\* part_004 321-328: the extractor runs on the tree
Extract ==
    /\ xpc \in {"drawn", "converted"}
    /\ xroutes' = extractRoutesFromCollection(xtree)
    /\ xpc' = IF xpc = "drawn" THEN "extracted" ELSE "roundtrip"
    /\ UNCHANGED <<xroute, xtree>>
    /\ UNCHANGED <<pipelineVars, tokenVars, concurrentVars, webVars>>

ExtractNext == ToItem \/ Extract

ExtractSpec == ExtractInit /\ [][ExtractNext]_vars

-----------------------------------------------------------------------------
(* Client.UpdateCollection run by two goroutines at once, each for its own *)
(* event, against the same collection: the HTTP server runs every request  *)
(* in a goroutine of its own, and neither the handlers nor the client hold *)
(* a lock or send a version with the PUT.                                  *)

\* client.go 257-261: the loop over NewRoutes
RECURSIVE AddNewRoutes(_, _, _)
AddNewRoutes(items, routes, summary) ==
    IF routes = <<>> THEN [items |-> items, update |-> summary]
    ELSE AddNewRoutes(AppendNewItem(items, Head(routes)), Tail(routes),
                      [summary EXCEPT !.itemsAdded = @ + 1])

\* client.go 264-273: the loop over ModifiedRoutes
RECURSIVE UpdateModifiedRoutes(_, _, _)
UpdateModifiedRoutes(items, routes, summary) ==
    IF routes = <<>> THEN [items |-> items, update |-> summary]
    ELSE LET done == updateExistingItem(items, Head(routes))
         IN IF done.found
            THEN UpdateModifiedRoutes(done.items, Tail(routes),
                                      [summary EXCEPT !.itemsModified = @ + 1])
            ELSE UpdateModifiedRoutes(AppendNewItem(items, Head(routes)),
                                      Tail(routes),
                                      [summary EXCEPT !.itemsAdded = @ + 1])

\* client.go 276-280: the loop over DeletedRoutes, ended by a panic if one occurs
RECURSIVE MarkDeletedRoutes(_, _, _)
MarkDeletedRoutes(items, routes, summary) ==
    IF routes = <<>> THEN [panicked |-> FALSE, items |-> items, update |-> summary]
    ELSE LET done == markItemAsDeprecated(items, Head(routes))
         IN IF done.panicked
            THEN [panicked |-> TRUE, items |-> done.items, update |-> summary]
            ELSE MarkDeletedRoutes(done.items, Tail(routes),
                                   IF done.found
                                   THEN [summary EXCEPT !.itemsModified = @ + 1]
                                   ELSE summary)

\* client.go 249-283: the three loops in their order
updateCollectionWithRoutes(items, analysis) ==
    LET started == [ZeroPostmanUpdate EXCEPT !.collectionID = CollectionID,
                                             !.status = "success"]
        added == AddNewRoutes(items, analysis.newRoutes, started)
        modified == UpdateModifiedRoutes(added.items, analysis.modifiedRoutes,
                                         added.update)
    IN MarkDeletedRoutes(modified.items, analysis.deletedRoutes, modified.update)

Analysis(newRoutes, modifiedRoutes, deletedRoutes) ==
    [newRoutes |-> newRoutes, modifiedRoutes |-> modifiedRoutes,
     deletedRoutes |-> deletedRoutes]

\* the changes of the two events
ConcurrentAnalyses ==
    {Analysis(<<UsersRoute>>, <<>>, <<>>),
     Analysis(<<OrdersRoute>>, <<>>, <<>>),
     Analysis(<<HealthRoute, OrdersRoute>>, <<>>, <<>>),
     Analysis(<<>>, <<UsersRoute>>, <<>>),
     Analysis(<<OrdersRoute>>, <<>>, <<UsersRoute>>)}

ConcurrentCollections ==
    {<<>>, <<TemplatedUsersItem>>, <<HandNamedUsersItem>>}

\* both events have been analysed and UpdateCollection is called for each
ConcurrentInit ==
    /\ PipelineUnused
    /\ TokenManagerNew
    /\ ExtractorUnused
    /\ WebUnused
    /\ remote \in ConcurrentCollections
    /\ updaters \in [Updaters -> {[IdleUpdater EXCEPT !.pc = "get", !.analysis = a] :
                                     a \in ConcurrentAnalyses}]

\* client.go 155: GetCollection returns the collection as the server holds it
UpdaterGetCollection(u) ==
    /\ updaters[u].pc = "get"
    /\ updaters' = [updaters EXCEPT ![u].pc = "reconcile",
                                    ![u].collection = remote]
    /\ UNCHANGED remote
    /\ UNCHANGED <<pipelineVars, tokenVars, extractVars, webVars>>

\* client.go 156-158: the fetch fails and UpdateCollection returns the error
UpdaterGetFails(u) ==
    /\ updaters[u].pc = "get"
    /\ updaters' = [updaters EXCEPT ![u].pc = "failed"]
    /\ UNCHANGED remote
    /\ UNCHANGED <<pipelineVars, tokenVars, extractVars, webVars>>

\* client.go 162: the fetched copy is reconciled in memory
UpdaterReconcile(u) ==
    /\ updaters[u].pc = "reconcile"
    /\ LET updated == updateCollectionWithRoutes(updaters[u].collection,
                                                 updaters[u].analysis)
       IN updaters' = [updaters EXCEPT
                          ![u].pc = IF updated.panicked THEN "panic" ELSE "put",
                          ![u].collection = updated.items,
                          ![u].update = updated.update]
    /\ UNCHANGED remote
    /\ UNCHANGED <<pipelineVars, tokenVars, extractVars, webVars>>

\* client.go 168-179 and 207-247: the whole copy is PUT and replaces the
\* collection on the server
UpdaterPutCollection(u) ==
    /\ updaters[u].pc = "put"
    /\ remote' = updaters[u].collection
    /\ updaters' = [updaters EXCEPT ![u].pc = "done"]
    /\ UNCHANGED <<pipelineVars, tokenVars, extractVars, webVars>>

\* client.go 168-170: the save fails
UpdaterPutFails(u) ==
    /\ updaters[u].pc = "put"
    /\ updaters' = [updaters EXCEPT ![u].pc = "failed"]
    /\ UNCHANGED remote
    /\ UNCHANGED <<pipelineVars, tokenVars, extractVars, webVars>>

ConcurrentNext ==
    \/ \E u \in Updaters : UpdaterGetCollection(u)
    \/ \E u \in Updaters : UpdaterGetFails(u)
    \/ \E u \in Updaters : UpdaterReconcile(u)
    \/ \E u \in Updaters : UpdaterPutCollection(u)
    \/ \E u \in Updaters : UpdaterPutFails(u)

ConcurrentSpec == ConcurrentInit /\ [][ConcurrentNext]_vars

-----------------------------------------------------------------------------
(* WebAnalyzeHandler.Handle (api/handlers/web_analyze.go) serving requests *)
(* while another goroutine creates and invalidates sessions and time       *)
(* passes.  GetSession holds the read lock from its first statement to its *)
(* return, so its lookup is one step, taken when no writer holds the lock. *)

\* the hex text of a generated token
TokenText(tok) == "5e5510a" \o ToString(tok)

\* the key of tm.sessions that a text is, 0 if it is the text of no token
TokenOf(text) ==
    IF \E tok \in Tokens : TokenText(tok) = text
    THEN CHOOSE tok \in Tokens : TokenText(tok) = text
    ELSE 0

\* the Authorization header values of the requests
AuthorizationValues ==
    {"", "Bearer ", "Bearer 0badc0de"}
    \cup {TokenText(tok) : tok \in Tokens}
    \cup {"Bearer " \o TokenText(tok) : tok \in Tokens}

WebRequests ==
    {[method |-> "POST", authorization |-> a] : a \in AuthorizationValues}
    \cup {[method |-> "GET", authorization |-> a] :
             a \in {"", "Bearer " \o TokenText(1)}}

\* history: the request's Authorization value, without a "Bearer " prefix, is
\* the token of a session that is in the map and not expired, now
LiveSession(authorization) ==
    LET text == IF Len(authorization) >= 7 /\ SubSeq(authorization, 1, 7) = "Bearer "
                THEN SubSeq(authorization, 8, Len(authorization))
                ELSE authorization
    IN \E tok \in Tokens : /\ TokenText(tok) = text
                           /\ sessions[tok] # NoSession
                           /\ now <= sessions[tok].expiresAt

\* the response is written and Handle returns
Answered(request, statusCode) ==
    [request EXCEPT !.pc = "done", !.statusCode = statusCode, !.token = ""]

WebInit ==
    /\ PipelineUnused
    /\ ExtractorUnused
    /\ ConcurrentUnused
    /\ TokenManagerNew
    /\ WebUnused

\* lines 39-54: the method, the Authorization header, the "Bearer " prefix
WebHandleBegin(method, authorization) ==
    /\ web.pc \in {"idle", "done"}
    /\ web.served < MaxRequests
    /\ LET request == [NoRequest EXCEPT !.served = web.served + 1,
                                        !.method = method,
                                        !.authorization = authorization,
                                        !.live = LiveSession(authorization)]
       IN web' = IF method # "POST" THEN Answered(request, 405)
                 ELSE IF authorization = "" THEN Answered(request, 401)
                 ELSE [request EXCEPT
                          !.pc = "lookup",
                          !.token = IF /\ Len(authorization) > 7
                                       /\ SubSeq(authorization, 1, 7) = "Bearer "
                                    THEN SubSeq(authorization, 8, Len(authorization))
                                    ELSE authorization]
    /\ UNCHANGED <<pipelineVars, tokenVars, extractVars, concurrentVars>>

\* a lookup that returns every session the map holds
WebGetSessionNoExpiry ==
    /\ web.pc = "lookup"
    /\ CanRLock
    /\ LET tok == TokenOf(web.token)
           exists == tok # 0 /\ sessions[tok] # NoSession
       IN web' = IF exists
                 THEN [web EXCEPT !.pc = "decode",
                                  !.live = LiveSession(web.authorization)]
                 ELSE Answered([web EXCEPT !.live = LiveSession(web.authorization)],
                               401)
    /\ UNCHANGED <<pipelineVars, tokenVars, extractVars, concurrentVars>>

\* lines 56-60 and token_manager.go 64-78: GetSession and the 401 when it
\* reports no session
WebGetSession ==
    /\ web.pc = "lookup"
    /\ CanRLock
    /\ LET tok == TokenOf(web.token)
           exists == /\ tok # 0
                     /\ sessions[tok] # NoSession
                     /\ ~After(now, sessions[tok].expiresAt)
       IN web' = IF exists
                 THEN [web EXCEPT !.pc = "decode",
                                  !.live = LiveSession(web.authorization)]
                 ELSE Answered([web EXCEPT !.live = LiveSession(web.authorization)],
                               401)
    /\ UNCHANGED <<pipelineVars, tokenVars, extractVars, concurrentVars>>

\* lines 61-72: the body is decoded and validated
WebDecode(valid) ==
    /\ web.pc = "decode"
    /\ web' = IF valid THEN [web EXCEPT !.pc = "analyze"] ELSE Answered(web, 400)
    /\ UNCHANGED <<pipelineVars, tokenVars, extractVars, concurrentVars>>

\* lines 74-151: the clients are built from the session, AnalyzePR is called
\* and its result or its error is answered
WebAnalyze(failed) ==
    /\ web.pc = "analyze"
    /\ web' = Answered([web EXCEPT !.calls = @ + 1],
                       IF failed THEN 500 ELSE 200)
    /\ UNCHANGED <<pipelineVars, tokenVars, extractVars, concurrentVars>>

WebNext ==
    \/ \E request \in WebRequests :
          WebHandleBegin(request.method, request.authorization)
    \/ WebGetSession
    \/ \E valid \in BOOLEAN : WebDecode(valid)
    \/ \E failed \in BOOLEAN : WebAnalyze(failed)
    \/ \E tok \in Tokens : CreateSessionBegin("c1", tok)
    \/ CreateSessionLock("c1")
    \/ CreateSessionStore("c1")
    \/ \E tok \in Tokens : InvalidateSessionLock("c1", tok)
    \/ InvalidateSessionDelete("c1")
    \/ Tick

WebSpec == WebInit /\ [][WebNext]_vars

-----------------------------------------------------------------------------
(* Vocabulary of the properties.                                           *)

\* every node of a tree, depth-first in pre-order
RECURSIVE AllNodes(_)
AllNodes(items) ==
    IF items = <<>> THEN <<>>
    ELSE <<Head(items)>> \o AllNodes(Head(items).items) \o AllNodes(Tail(items))

NodeCount(items) == Len(AllNodes(items))

\* the matching rule as the specification words it: the display name is
\* "{method} {path}", or the request has the method and the raw URL
\* "{{baseUrl}}" + path
SatisfiesRule(item, route) ==
    \/ item.name = route.method \o " " \o route.path
    \/ /\ item.request # NilRequest
       /\ item.request.method = route.method
       /\ item.request.url.raw = "{{baseUrl}}" \o route.path

\* some node of the tree, at any depth, satisfies the rule
MatchedInTree(items, route) ==
    \E k \in 1..NodeCount(items) : SatisfiesRule(AllNodes(items)[k], route)

\* some item of the root list satisfies the rule
MatchedAtRoot(items, route) ==
    \E i \in 1..Len(items) : SatisfiesRule(items[i], route)

\* i is the first root item that satisfies the rule
FirstAtRoot(items, route, i) ==
    /\ i \in 1..Len(items)
    /\ SatisfiesRule(items[i], route)
    /\ \A j \in 1..(i - 1) : ~SatisfiesRule(items[j], route)

\* the nodes of the tree that carry a request, in traversal order
HasRequest(node) == node.request # NilRequest

RequestNodes(items) == SelectSeq(AllNodes(items), HasRequest)

\* every node of the tree is a request or a folder, never both
Unmixed(items) ==
    \A k \in 1..NodeCount(items) :
        ~(HasRequest(AllNodes(items)[k]) /\ AllNodes(items)[k].items # <<>>)

\* the names of the ancestor folders of every request of an unmixed tree, in
\* traversal order, the list of ancestors handed down by value
RECURSIVE Lineages(_, _)
Lineages(items, ancestors) ==
    IF items = <<>> THEN <<>>
    ELSE (IF HasRequest(Head(items)) THEN <<ancestors>>
          ELSE Lineages(Head(items).items, Append(ancestors, Head(items).name)))
         \o Lineages(Tail(items), ancestors)

\* the nodes of the tree that satisfy the rule, as positions in AllNodes
MatchesInTree(items, route) ==
    {k \in 1..NodeCount(items) : SatisfiesRule(AllNodes(items)[k], route)}

\* the first node in traversal order that satisfies the rule, 0 if none does
FirstInTree(items, route) ==
    IF MatchesInTree(items, route) = {} THEN 0
    ELSE CHOOSE k \in MatchesInTree(items, route) :
            \A j \in MatchesInTree(items, route) : k <= j

\* updateCollectionWithRoutes has run its three loops and returns its summary
ReconcileDone == pc = "put"

OnlyDeletions ==
    /\ analysisResp.newRoutes = <<>>
    /\ analysisResp.modifiedRoutes = <<>>
    /\ Len(analysisResp.deletedRoutes) > 0

-----------------------------------------------------------------------------
(* C1: deprecation is idempotent.  When the same deletion is listed twice  *)
(* in deletedRoutes (and nothing else is changed), the item it matches,    *)
(* untagged before, ends with exactly one [DEPRECATED] tag on its display  *)
(* name and exactly one on its description.                                *)
C1_DeprecationIdempotent ==
    (/\ ReconcileDone
     /\ OnlyDeletions
     /\ Len(analysisResp.deletedRoutes) = 2
     /\ analysisResp.deletedRoutes[1] = analysisResp.deletedRoutes[2])
    => \A i \in 1..Len(original) :
          (/\ FirstAtRoot(original, analysisResp.deletedRoutes[1], i)
           /\ TagCount(original[i].name) = 0
           /\ TagCount(original[i].description) = 0)
          => /\ TagCount(collection[i].name) = 1
             /\ TagCount(collection[i].description) = 1

-----------------------------------------------------------------------------
(* C2: reconcile is total.  updateCollectionWithRoutes never aborts: no    *)
(* run of UpdateCollection ends in a panic, and a summary that is returned *)
(* has status "success".                                                   *)
C2_ReconcileTotal ==
    /\ ~(pc = "panic" /\ calls.update > 0)
    /\ ReconcileDone => update.status = "success"

-----------------------------------------------------------------------------
(* C3: matching searches the whole tree.  When the one route change of an  *)
(* event is a modification or a deletion and the only items that satisfy   *)
(* the rule are nested in folders, the nested item is the one changed:     *)
(* itemsModified is 1 and nothing is appended to the root.                 *)
C3_NestedItemMatched ==
    (/\ ReconcileDone
     /\ analysisResp.newRoutes = <<>>
     /\ Len(analysisResp.modifiedRoutes) + Len(analysisResp.deletedRoutes) = 1
     /\ LET route == (analysisResp.modifiedRoutes \o analysisResp.deletedRoutes)[1]
        IN MatchedInTree(original, route) /\ ~MatchedAtRoot(original, route))
    => /\ update.itemsModified = 1
       /\ update.itemsAdded = 0
       /\ Len(collection) = Len(original)
       /\ collection # original

-----------------------------------------------------------------------------
(* C4: the end-to-end scenario.  From a tree whose only item is named      *)
(* "GET {{baseUrl}}/api/v1/users" (request GET {{baseUrl}}/api/v1/users),  *)
(* newRoutes = [POST /api/v1/orders], modifiedRoutes = [], deletedRoutes = *)
(* [GET /api/v1/users]: reconcile yields two root items, the original      *)
(* first, renamed with the tag and with a tagged description, then the new *)
(* POST item; the summary counts 1 added, 1 modified, 0 deleted.           *)
C4_Scenario ==
    /\ ReconcileDone
    /\ Len(original) = 1
    /\ original[1].name = "GET {{baseUrl}}/api/v1/users"
    /\ original[1].request # NilRequest
    /\ original[1].request.method = "GET"
    /\ original[1].request.url.raw = "{{baseUrl}}/api/v1/users"
    /\ Len(analysisResp.newRoutes) = 1
    /\ analysisResp.newRoutes[1].method = "POST"
    /\ analysisResp.newRoutes[1].path = "/api/v1/orders"
    /\ analysisResp.modifiedRoutes = <<>>
    /\ Len(analysisResp.deletedRoutes) = 1
    /\ analysisResp.deletedRoutes[1].method = "GET"
    /\ analysisResp.deletedRoutes[1].path = "/api/v1/users"

C4_EndToEnd ==
    C4_Scenario
    => /\ Len(collection) = 2
       /\ collection[1].name = "[DEPRECATED] GET {{baseUrl}}/api/v1/users"
       /\ HasPrefix(collection[1].description, "[DEPRECATED]")
       /\ collection[1].request = original[1].request
       /\ collection[2].name = "POST /api/v1/orders"
       /\ collection[2].request # NilRequest
       /\ collection[2].request.method = "POST"
       /\ collection[2].request.url.raw = "{{baseUrl}}/api/v1/orders"
       /\ update.itemsAdded = 1
       /\ update.itemsModified = 1
       /\ update.itemsDeleted = 0

-----------------------------------------------------------------------------
(* C5: an unmatched modification degrades to an addition.  Whenever the    *)
(* modifiedRoutes entry being processed matches no item of the tree, the   *)
(* step appends one freshly converted item at the end of the root list,    *)
(* adds one to itemsAdded and leaves itemsModified as it was.              *)
C5_UnmatchedModificationAppends ==
    [][(/\ pc = "modified"
        /\ ~MatchedInTree(collection, analysisResp.modifiedRoutes[idx]))
       => LET route == analysisResp.modifiedRoutes[idx]
              added == collection'[Len(collection) + 1]
          IN /\ Len(collection') = Len(collection) + 1
             /\ SubSeq(collection', 1, Len(collection)) = collection
             /\ added = convertRouteToPostmanItem(route)
             /\ added.name = route.method \o " " \o route.path
             /\ update'.itemsAdded = update.itemsAdded + 1
             /\ update'.itemsModified = update.itemsModified]_vars

\* an event whose only change was a modification that matched nothing
C5_Witness ==
    /\ ReconcileDone
    /\ analysisResp.newRoutes = <<>>
    /\ analysisResp.deletedRoutes = <<>>
    /\ Len(analysisResp.modifiedRoutes) = 1
    /\ Len(original) > 0
    /\ ~MatchedInTree(original, analysisResp.modifiedRoutes[1])
    /\ update.itemsAdded = 1
    /\ update.itemsModified = 0

-----------------------------------------------------------------------------
(* C6: addition is append-only and order-preserving.  With n newRoutes and *)
(* no modified or deleted routes, the reconciled root list is the original *)
(* root list, unchanged, followed by the n converted items in the order of *)
(* newRoutes; itemsAdded = n.                                              *)
C6_AdditionAppendOnly ==
    (/\ ReconcileDone
     /\ analysisResp.modifiedRoutes = <<>>
     /\ analysisResp.deletedRoutes = <<>>)
    => LET n == Len(analysisResp.newRoutes)
       IN /\ Len(collection) = Len(original) + n
          /\ SubSeq(collection, 1, Len(original)) = original
          /\ \A k \in 1..n :
                LET item == collection[Len(original) + k]
                    route == analysisResp.newRoutes[k]
                IN /\ item = convertRouteToPostmanItem(route)
                   /\ item.name = route.method \o " " \o route.path
          /\ update.itemsAdded = n
          /\ update.itemsModified = 0

\* two different new routes added to a tree that already holds an item
C6_Witness ==
    /\ ReconcileDone
    /\ analysisResp.modifiedRoutes = <<>>
    /\ analysisResp.deletedRoutes = <<>>
    /\ Len(analysisResp.newRoutes) = 2
    /\ analysisResp.newRoutes[1] # analysisResp.newRoutes[2]
    /\ Len(original) > 0
    /\ Len(collection) = Len(original) + 2

-----------------------------------------------------------------------------
(* C7: deletion is soft.  No step ever takes a node out of the tree, in    *)
(* the working copy or in the store; a deletedRoutes entry that the search *)
(* finds only tags the found item (every other item, and the item's        *)
(* request and children, stay as they were) and adds one to itemsModified; *)
(* itemsDeleted is 0 throughout.                                           *)
C7_DeletionSoft ==
    [][/\ update'.itemsDeleted = 0
       /\ pc \in {"new", "modified", "deleted"}
             => NodeCount(collection') >= NodeCount(collection)
       /\ NodeCount(store') >= NodeCount(store)
       /\ (/\ pc = "deleted"
           /\ MatchedAtRoot(collection, analysisResp.deletedRoutes[idx]))
          => /\ pc' # "panic"
             /\ update'.itemsModified = update.itemsModified + 1
             /\ update'.itemsAdded = update.itemsAdded
             /\ Len(collection') = Len(collection)
             /\ \A i \in 1..Len(collection) :
                   IF FirstAtRoot(collection, analysisResp.deletedRoutes[idx], i)
                   THEN /\ HasPrefix(collection'[i].description, "[DEPRECATED]")
                        /\ collection'[i].request = collection[i].request
                        /\ collection'[i].items = collection[i].items
                   ELSE collection'[i] = collection[i]]_vars

-----------------------------------------------------------------------------
(* C8: an unmatched deletion is a no-op.  Whenever the deletedRoutes entry *)
(* being processed matches no item of the tree, the step leaves the tree   *)
(* and the three counters exactly as they were and produces no error.      *)
C8_UnmatchedDeletionNoOp ==
    [][(/\ pc = "deleted"
        /\ ~MatchedInTree(collection, analysisResp.deletedRoutes[idx]))
       => /\ collection' = collection
          /\ update' = update
          /\ err' = err
          /\ pc' # "panic"]_vars

\* a reconcile of deletions only, none of which matched anything
C8_Witness ==
    /\ ReconcileDone
    /\ OnlyDeletions
    /\ Len(original) > 0
    /\ \A k \in 1..Len(analysisResp.deletedRoutes) :
          ~MatchedInTree(original, analysisResp.deletedRoutes[k])
    /\ collection = original
    /\ update.itemsAdded = 0
    /\ update.itemsModified = 0
    /\ update.itemsDeleted = 0
    /\ err = NoError

-----------------------------------------------------------------------------
(* C9: confidence and summary pass through.  From the moment the oracle    *)
(* has answered, the analysis AnalyzePR holds and returns has the oracle's *)
(* confidence and summary, and differs from the oracle's answer in the     *)
(* postman_update field only, whether the update succeeded, failed or was  *)
(* skipped.                                                                *)
C9_PassThrough ==
    oracle.status = "ok"
    => /\ analysisResp # NilResponse
       /\ analysisResp.confidence = oracle.response.confidence
       /\ analysisResp.summary = oracle.response.summary
       /\ [analysisResp EXCEPT !.postmanUpdate = ZeroPostmanUpdate]
             = [oracle.response EXCEPT !.postmanUpdate = ZeroPostmanUpdate]

\* a result returned after the save failed, with the oracle's confidence
C9_Witness ==
    /\ pc = "returned"
    /\ oracle.status = "ok"
    /\ calls.put = 1
    /\ analysisResp.postmanUpdate.status = "error"
    /\ analysisResp.confidence = 150
    /\ analysisResp.summary = ""

-----------------------------------------------------------------------------
(* C10: oracle failure is fatal.  When the oracle call has failed,         *)
(* AnalyzePR has returned an error and no analysis, UpdateCollection was   *)
(* not called for the event, no reconcile was computed and no save sent.   *)
C10_OracleFailureFatal ==
    oracle.status = "error"
    => /\ pc = "returned"
       /\ err # NoError
       /\ analysisResp = NilResponse
       /\ calls.update = 0
       /\ calls.put = 0
       /\ collection = <<>>
       /\ original = <<>>
       /\ update = ZeroPostmanUpdate

\* the oracle call ran into its deadline and AnalyzePR returned
C10_Witness ==
    /\ pc = "returned"
    /\ oracle.status = "error"
    /\ oracle.error.message = "context deadline exceeded"
    /\ calls.oracle = 1
    /\ err = WrapError("claude analysis failed", oracle.error)

-----------------------------------------------------------------------------
(* C11: a failed documentation-store write degrades.  When the oracle      *)
(* answered with at least one route change and UpdateCollection failed (at *)
(* its fetch or at its save), AnalyzePR returns no error and returns the   *)
(* oracle's newRoutes, modifiedRoutes, deletedRoutes and summary as they   *)
(* were, with postman_update.status = "error" and the failure's text in    *)
(* error_message.                                                          *)
C11_WriteFailureDegrades ==
    updateErr # NoError
    => /\ pc = "returned"
       /\ oracle.status = "ok"
       /\ hasAPIChanges(oracle.response)
       /\ err = NoError
       /\ analysisResp # NilResponse
       /\ analysisResp.newRoutes = oracle.response.newRoutes
       /\ analysisResp.modifiedRoutes = oracle.response.modifiedRoutes
       /\ analysisResp.deletedRoutes = oracle.response.deletedRoutes
       /\ analysisResp.summary = oracle.response.summary
       /\ analysisResp.postmanUpdate.status = "error"
       /\ analysisResp.postmanUpdate.errorMessage = updateErr.message
       /\ updateErr.message # ""

\* the save failed after a reconcile that added a route
C11_Witness ==
    /\ pc = "returned"
    /\ calls.put = 1
    /\ update.itemsAdded > 0
    /\ updateErr # NoError
    /\ analysisResp.postmanUpdate.errorMessage
          = "failed to save updated collection: context deadline exceeded"

-----------------------------------------------------------------------------
(* C12: a failed context fetch is swallowed.  When the fetch that builds   *)
(* the existing-routes context fails, AnalyzePR does not return: its next  *)
(* step is the oracle call, made once and with an empty existing-routes    *)
(* list, and what follows is the usual logic (an error if the oracle       *)
(* fails, the update if the oracle names changes, the skip otherwise).     *)
C12_ContextFailureSwallowed ==
    [][/\ calls'.oracle <= 1
       /\ (pc = "context" /\ contextErr' # NoError)
             => /\ pc' = "oracle"
                /\ err' = NoError
                /\ analysisReq'.existingRoutes = <<>>
                /\ calls'.oracle = 0
       /\ (pc = "oracle" /\ contextErr # NoError)
             => /\ analysisReq.existingRoutes = <<>>
                /\ calls.oracle = 0
                /\ calls'.oracle = 1
                /\ oracle'.status \in {"ok", "error"}
                /\ oracle'.status = "error"
                      => pc' = "returned" /\ err' # NoError
                /\ oracle'.status = "ok"
                      => /\ err' = NoError
                         /\ pc' = IF hasAPIChanges(oracle'.response)
                                  THEN "update" ELSE "returned"]_vars

\* the context fetch has failed and the oracle call is next
C12_Witness ==
    /\ pc = "oracle"
    /\ contextErr # NoError
    /\ err = NoError
    /\ Len(store) > 0
    /\ analysisReq.existingRoutes = <<>>

-----------------------------------------------------------------------------
(* C13: oracle error classes map to transport statuses.  When AnalyzePR    *)
(* failed because the oracle returned a classified error, the response of  *)
(* the manual and of the web handler has status 400 for validation, 401    *)
(* for unauthorized, 429 for rate-limit, 503 for unavailable and 500 for   *)
(* any other error.                                                        *)
C13_ErrorClassesMapped ==
    (response # NoResponse /\ oracle.status = "error")
    => response.statusCode =
          CASE oracle.error.type = "validation" -> 400
            [] oracle.error.type = "unauthorized" -> 401
            [] oracle.error.type = "rate_limit" -> 429
            [] oracle.error.type = "unavailable" -> 503
            [] OTHER -> 500

-----------------------------------------------------------------------------
(* C20: fixed processing order.  Within one reconcile the newRoutes are    *)
(* applied first, then the modifiedRoutes, then the deletedRoutes, each    *)
(* list from its first entry to its last, and every list is finished       *)
(* before the summary is returned.  So an entry is matched against a tree  *)
(* that holds what was appended before it: when the same route is the one  *)
(* new route and the one deleted route and matched nothing before, the     *)
(* reconcile ends with one appended item, tagged deprecated, itemsAdded =  *)
(* 1 and itemsModified = 1.                                                *)
C20_Rank(position) ==
    CASE position = "update" -> 0
      [] position = "new" -> 1
      [] position = "modified" -> 2
      [] position = "deleted" -> 3
      [] OTHER -> 4

C20_List(resp, position) ==
    CASE position = "new" -> resp.newRoutes
      [] position = "modified" -> resp.modifiedRoutes
      [] position = "deleted" -> resp.deletedRoutes
      [] OTHER -> <<>>

\* the one new route is also the one deleted route, and matched nothing
C20_NewThenDeleted(resp, before) ==
    /\ Len(resp.newRoutes) = 1
    /\ resp.modifiedRoutes = <<>>
    /\ resp.deletedRoutes = resp.newRoutes
    /\ ~MatchedInTree(before, resp.newRoutes[1])

C20_FixedOrder ==
    [][(pc \in {"update", "new", "modified", "deleted"} /\ pc' # "returned")
       => /\ C20_Rank(pc') >= C20_Rank(pc)
          \* a list is entered at its first entry and left after its last
          /\ pc' # pc /\ C20_Rank(pc') < 4 => idx' = 1
          /\ pc' = pc => idx' = idx + 1
          /\ pc' # pc /\ pc # "update" /\ pc' # "panic"
                => idx = Len(C20_List(analysisResp, pc))
          \* no list between the two positions is skipped
          /\ \A position \in {"new", "modified", "deleted"} :
                (/\ C20_Rank(pc) < C20_Rank(position)
                 /\ C20_Rank(position) < C20_Rank(pc'))
                => C20_List(analysisResp, position) = <<>>
          /\ pc \in {"new", "modified", "deleted"}
                => idx \in 1..Len(C20_List(analysisResp, pc))
          \* the consequence for a route that is new and deleted at once
          /\ (/\ pc = "deleted"
              /\ C20_NewThenDeleted(analysisResp, original))
             => /\ pc' = "put"
                /\ Len(collection') = Len(original) + 1
                /\ SubSeq(collection', 1, Len(original)) = original
                /\ collection'[Len(collection')].name
                      = "[DEPRECATED] " \o RouteName(analysisResp.newRoutes[1])
                /\ HasPrefix(collection'[Len(collection')].description,
                             "[DEPRECATED]")
                /\ update'.itemsAdded = 1
                /\ update'.itemsModified = 1]_vars

-----------------------------------------------------------------------------
(* C14: session expiry at read time.  A session is created with expiry     *)
(* t0 + TokenTTL; a GetSession that reads the clock strictly before that   *)
(* time returns the session (it was started after CreateSession returned   *)
(* and the session was not invalidated), and one that reads the clock      *)
(* strictly after it reports the session absent, whether or not a sweep    *)
(* has removed the entry.                                                  *)
C14_ExpiryAtRead ==
    /\ \A tok \in Tokens :
          /\ issued[tok].state # "unused"
                => issued[tok].expiresAt = issued[tok].createdAt + TokenTTL
          /\ sessions[tok] # NoSession
                => sessions[tok].expiresAt = issued[tok].expiresAt
    /\ \A c \in Clients :
          procs[c].pc = "get_return"
          => LET created == issued[procs[c].token]
             IN /\ (/\ procs[c].visible
                    /\ ~created.invalidated
                    /\ procs[c].at < created.expiresAt)
                   => procs[c].found
                /\ (/\ created.state # "unused"
                    /\ procs[c].at > created.expiresAt)
                   => ~procs[c].found

\* a lookup past the expiry reports absent while the map still has the entry
C14_Witness ==
    \E c \in Clients :
        /\ procs[c].pc = "get_return"
        /\ procs[c].visible
        /\ ~procs[c].found
        /\ procs[c].at > issued[procs[c].token].expiresAt
        /\ sessions[procs[c].token] # NoSession

-----------------------------------------------------------------------------
(* C15: session creation is visible and never lost.  Under every           *)
(* interleaving of CreateSession, GetSession, InvalidateSession and the    *)
(* sweep, a GetSession started after CreateSession returned the token      *)
(* finds the session as long as it has not expired and was not             *)
(* invalidated, and every session whose CreateSession returned is in the   *)
(* map, as created, until it expires or is invalidated, also when the      *)
(* CreateSession calls overlapped.                                         *)
C15_CreationVisible ==
    /\ \A c \in Clients :
          (/\ procs[c].pc = "get_return"
           /\ procs[c].visible
           /\ ~issued[procs[c].token].invalidated
           /\ ~After(procs[c].at, issued[procs[c].token].expiresAt))
          => procs[c].found
    /\ \A tok \in Tokens :
          (/\ issued[tok].state = "returned"
           /\ ~issued[tok].invalidated
           /\ ~After(now, issued[tok].expiresAt))
          => sessions[tok] = [createdAt |-> issued[tok].createdAt,
                              expiresAt |-> issued[tok].expiresAt]

\* two CreateSession calls overlapped, both sessions are held, one is found
C15_Witness ==
    /\ \A tok \in 1..2 :
          issued[tok].state = "returned" /\ sessions[tok] # NoSession
    /\ issued[2].overlapped
    /\ \E c \in Clients :
          /\ procs[c].pc = "get_return"
          /\ procs[c].token = 1
          /\ procs[c].visible
          /\ procs[c].found

-----------------------------------------------------------------------------
(* C16: sweep and lookup are consistent.  Under every interleaving, the    *)
(* sweep deletes a session only if its expiry had passed when the sweep    *)
(* read the clock; GetSession returns a session exactly when the map holds *)
(* it and its expiry has not passed at the time of the read; and the       *)
(* lookup never reads the map while the sweep holds the lock.              *)
C16_SweepLookupConsistent ==
    [][/\ \A tok \in Tokens :
             (/\ procs[Sweeper].pc = "delete"
              /\ sessions[tok] # NoSession
              /\ sessions'[tok] = NoSession)
             => After(now, sessions[tok].expiresAt)
       /\ \A c \in Clients :
             (procs[c].pc = "get_read" /\ procs'[c].pc = "get_return")
             => /\ mu.writer = "none"
                /\ procs'[c].found
                      <=> /\ sessions[procs[c].token] # NoSession
                          /\ ~After(now, sessions[procs[c].token].expiresAt)
       /\ mu.writer = Sweeper
             => \A c \in Clients : procs[c].pc \notin {"get_read", "get_return"}
      ]_vars

\* the sweep is about to delete an expired session, keeps an unexpired one,
\* and a GetSession is waiting for the lock
C16_Witness ==
    /\ procs[Sweeper].pc = "delete"
    /\ procs[Sweeper].expired # {}
    /\ \E tok \in Tokens :
          /\ sessions[tok] # NoSession
          /\ tok \notin procs[Sweeper].expired
    /\ \E c \in Clients :
          procs[c].pc = "get_rlock" /\ procs[c].token \notin procs[Sweeper].expired

-----------------------------------------------------------------------------
(* C17: converter/extractor path round trip.  For a route whose path       *)
(* starts with "/" and is longer than "/", the converted item has          *)
(* pathSegments = ["{{baseUrl}}", path without its leading slash] and raw  *)
(* = "{{baseUrl}}" followed by the path, and the extractor run on the tree *)
(* that holds only that item returns exactly one route, with the route's   *)
(* path and method.                                                        *)
C17_PathRoundTrip ==
    (/\ xpc \in {"converted", "roundtrip"}
     /\ Len(xroute.path) > 1
     /\ SubSeq(xroute.path, 1, 1) = "/")
    => /\ Len(xtree) = 1
       /\ xtree[1].request.url.path
             = <<"{{baseUrl}}", SubSeq(xroute.path, 2, Len(xroute.path))>>
       /\ xtree[1].request.url.raw = "{{baseUrl}}" \o xroute.path
       /\ xpc = "roundtrip"
             => /\ ~xroutes.panicked
                /\ Len(xroutes.routes) = 1
                /\ xroutes.routes[1].path = xroute.path
                /\ xroutes.routes[1].method = xroute.method

\* the round trip of POST /api/v1/users
C17_Witness ==
    /\ xpc = "roundtrip"
    /\ xroute.path = "/api/v1/users"
    /\ xroute.method = "POST"
    /\ Len(xroutes.routes) = 1
    /\ xroutes.routes[1].path = "/api/v1/users"

-----------------------------------------------------------------------------
(* C18: the empty-path edge case.  A route with path "" and a route with   *)
(* path "/" each convert to an item with pathSegments = ["{{baseUrl}}"],   *)
(* and the extractor run on that converted item returns one route with     *)
(* path "/".                                                               *)
C18_EmptyPath ==
    (xpc \in {"converted", "roundtrip"} /\ xroute.path \in {"", "/"})
    => /\ Len(xtree) = 1
       /\ xtree[1].request.url.path = <<"{{baseUrl}}">>
       /\ xpc = "roundtrip"
             => /\ ~xroutes.panicked
                /\ Len(xroutes.routes) = 1
                /\ xroutes.routes[1].path = "/"

-----------------------------------------------------------------------------
(* C19: the extractor's classification.  The output of a run that returns  *)
(* lists exactly the items that have a request and no children, in         *)
(* depth-first pre-order: an item with children is recursed into and not   *)
(* emitted, also when it has a request.                                    *)
C19_ChildlessRequest(node) == node.request # NilRequest /\ node.items = <<>>

C19_Classification ==
    (xpc = "extracted" /\ ~xroutes.panicked)
    => LET expected == SelectSeq(AllNodes(xtree), C19_ChildlessRequest)
       IN /\ Len(xroutes.routes) = Len(expected)
          /\ \A i \in 1..Len(expected) :
                /\ xroutes.routes[i].name = expected[i].name
                /\ xroutes.routes[i].method = expected[i].request.method

-----------------------------------------------------------------------------
(* C21: first match wins.  Whenever the modifiedRoutes or deletedRoutes    *)
(* entry being processed is satisfied by more than one item of the tree,   *)
(* the step changes the first of them in traversal order (depth-first,     *)
(* pre-order), replacing it by the converted item or tagging its           *)
(* description, and leaves every other matching item as it was.            *)
C21_FirstMatchWins ==
    [][\A phase \in {"modified", "deleted"} :
          LET route == IF phase = "modified" THEN analysisResp.modifiedRoutes[idx]
                       ELSE analysisResp.deletedRoutes[idx]
              first == FirstInTree(collection, route)
          IN (pc = phase /\ Cardinality(MatchesInTree(collection, route)) > 1)
             => /\ NodeCount(collection') = NodeCount(collection)
                /\ IF phase = "modified"
                   THEN AllNodes(collection')[first] = convertRouteToPostmanItem(route)
                   ELSE HasPrefix(AllNodes(collection')[first].description,
                                  "[DEPRECATED]")
                /\ \A k \in MatchesInTree(collection, route) \ {first} :
                      AllNodes(collection')[k] = AllNodes(collection)[k]]_vars

-----------------------------------------------------------------------------
(* C22: a matched modification replaces in place.  Whenever the            *)
(* modifiedRoutes entry being processed matches an item of the tree, the   *)
(* converted item takes the position of the first match, every list of the *)
(* tree keeps its length and its order, every other item is unchanged,     *)
(* itemsModified grows by one and itemsAdded stays.                        *)
C22_ReplacedInPlace ==
    [][(/\ pc = "modified"
        /\ MatchedInTree(collection, analysisResp.modifiedRoutes[idx]))
       => LET route == analysisResp.modifiedRoutes[idx]
              first == FirstInTree(collection, route)
          IN /\ Len(collection') = Len(collection)
             /\ NodeCount(collection') = NodeCount(collection)
             /\ AllNodes(collection')[first] = convertRouteToPostmanItem(route)
             /\ \A k \in (1..NodeCount(collection)) \ {first} :
                   /\ AllNodes(collection')[k].name = AllNodes(collection)[k].name
                   /\ Len(AllNodes(collection')[k].items)
                         = Len(AllNodes(collection)[k].items)
                   /\ AllNodes(collection)[k].items = <<>>
                         => AllNodes(collection')[k] = AllNodes(collection)[k]
             /\ update'.itemsModified = update.itemsModified + 1
             /\ update'.itemsAdded = update.itemsAdded]_vars

-----------------------------------------------------------------------------
(* C23: the extractor is total.  For every tree the extractor returns      *)
(* normally; in a tree whose items are requests or folders it returns one  *)
(* route for each request, and a raw URL that starts with "{{baseUrl}}"    *)
(* yields the raw text without that prefix.  This holds also for a raw URL *)
(* that is shorter than the placeholder or does not start with it.         *)
C23_ExtractorTotal ==
    xpc = "extracted"
    => /\ ~xroutes.panicked
       /\ Unmixed(xtree)
             => /\ Len(xroutes.routes) = Len(RequestNodes(xtree))
                /\ \A i \in 1..Len(RequestNodes(xtree)) :
                      LET raw == RequestNodes(xtree)[i].request.url.raw
                      IN HasPrefix(raw, "{{baseUrl}}")
                            => "{{baseUrl}}" \o xroutes.routes[i].path = raw

-----------------------------------------------------------------------------
(* C24: the fallback from path segments.  For every request whose raw URL  *)
(* is empty, the extracted path is built from pathSegments without a       *)
(* leading "{{baseUrl}}" segment: "/" followed by the first remaining      *)
(* segment when one remains (a single segment that is not the placeholder  *)
(* remains), and "/" only when none remains.                               *)
C24_SegmentFallback ==
    (xpc = "extracted" /\ ~xroutes.panicked /\ Unmixed(xtree))
    => \A i \in 1..Len(RequestNodes(xtree)) :
          LET url == RequestNodes(xtree)[i].request.url
              remaining == IF url.path # <<>> /\ url.path[1] = "{{baseUrl}}"
                           THEN Tail(url.path) ELSE url.path
          IN url.raw = ""
                => /\ i <= Len(xroutes.routes)
                   /\ xroutes.routes[i].path
                         = IF remaining # <<>> THEN "/" \o remaining[1] ELSE "/"

-----------------------------------------------------------------------------
(* C25: folder lineage is exact.  For every tree whose items are requests  *)
(* or folders, each emitted route's folderPath is the list of the names of *)
(* its ancestor folders from the root down, whatever folders are walked    *)
(* beside it or after it.                                                  *)
C25_LineageExact ==
    (xpc = "extracted" /\ ~xroutes.panicked /\ Unmixed(xtree))
    => /\ Len(xroutes.routes) = Len(Lineages(xtree, <<>>))
       /\ \A i \in 1..Len(xroutes.routes) :
             xroutes.routes[i].folderPath = Lineages(xtree, <<>>)[i]

\* two sibling folders at the fourth depth, each with a request, and requests
\* walked after them
C25_Witness ==
    /\ xpc = "extracted"
    /\ xtree = DeepTree
    /\ Len(xroutes.routes) = 6
    /\ xroutes.routes[1].folderPath = <<"A", "B", "C", "D">>
    /\ xroutes.routes[2].folderPath = <<"A", "B", "C", "E">>
    /\ xroutes.routes[3].folderPath = <<"A", "B", "C">>
    /\ xroutes.routes[6].folderPath = <<"G", "I">>

-----------------------------------------------------------------------------
(* C26: the header list of a converted item.  For a route with n declared  *)
(* headers the converted request has n + 1 headers: the synthetic          *)
(* Content-Type: application/json first, then the declared headers in      *)
(* their order, a declared Content-Type included.                          *)
C26_HeaderList ==
    xpc \in {"converted", "roundtrip"}
    => LET header == xtree[1].request.header
           n == Len(xroute.headers)
       IN /\ Len(header) = n + 1
          /\ header[1].key = "Content-Type"
          /\ header[1].value = "application/json"
          /\ \A i \in 1..n :
                /\ header[i + 1].key = xroute.headers[i].name
                /\ header[i + 1].description = xroute.headers[i].description
                /\ header[i + 1].value = FormatValue(xroute.headers[i].example)

\* a route that declares a Content-Type of its own: two Content-Type entries
C26_Witness ==
    /\ xpc = "converted"
    /\ Len(xroute.headers) = 2
    /\ xroute.headers[1].name = "Content-Type"
    /\ Len(xtree[1].request.header) = 3
    /\ xtree[1].request.header[1].key = "Content-Type"
    /\ xtree[1].request.header[2].key = "Content-Type"
    /\ xtree[1].request.header[2].value = "text/plain"
    /\ xtree[1].request.header[3].value = "<nil>"

-----------------------------------------------------------------------------
(* C28: no changes, no write.  When the oracle's three lists are all empty *)
(* AnalyzePR makes no call of the collection update (no fetch, no save)    *)
(* and returns the analysis with postman_update.status = "skipped" and the *)
(* three counters 0; when a list is not empty the update is called, once.  *)
C28_NoChangesNoWrite ==
    oracle.status = "ok"
    => IF /\ oracle.response.newRoutes = <<>>
          /\ oracle.response.modifiedRoutes = <<>>
          /\ oracle.response.deletedRoutes = <<>>
       THEN /\ calls.update = 0 /\ calls.get = 0 /\ calls.put = 0
            /\ pc = "returned"
            /\ err = NoError
            /\ analysisResp.summary = oracle.response.summary
            /\ analysisResp.postmanUpdate.status = "skipped"
            /\ analysisResp.postmanUpdate.itemsAdded = 0
            /\ analysisResp.postmanUpdate.itemsModified = 0
            /\ analysisResp.postmanUpdate.itemsDeleted = 0
       ELSE /\ calls.update = IF pc = "update" THEN 0 ELSE 1
            /\ calls.get = calls.update
            /\ calls.put <= 1
            /\ (pc = "returned" /\ updateErr = NoError) => calls.put = 1

\* the second event of a run finds no changes in a collection that has items
C28_Witness ==
    /\ event = 2
    /\ pc = "returned"
    /\ oracle.status = "ok"
    /\ ChangeCount(oracle.response) = 0
    /\ calls = [NoCalls EXCEPT !.oracle = 1]
    /\ analysisResp.postmanUpdate.status = "skipped"
    /\ store # <<>>

-----------------------------------------------------------------------------
-----------------------------------------------------------------------------
(* C29: no lost update between concurrent events.  When two events run     *)
(* UpdateCollection at once against the same collection and both complete  *)
(* successfully, the stored collection holds, for every new route of       *)
(* either event, an item with the request converted from that route.       *)
C29_NoLostUpdate ==
    (\A u \in Updaters : updaters[u].pc = "done")
    => \A u \in Updaters :
          \A i \in 1..Len(updaters[u].analysis.newRoutes) :
             \E k \in 1..Len(remote) :
                remote[k].request
                   = convertRouteToPostmanItem(updaters[u].analysis.newRoutes[i]).request

-----------------------------------------------------------------------------
(* C30, as claimed: web analysis is gated by a live session.  The handler  *)
(* starts an analysis only for a request whose Authorization value,        *)
(* without an optional "Bearer " prefix, is the token of a session present *)
(* and unexpired at lookup time; every request with a missing, unknown,    *)
(* invalidated or expired token is answered 401 and starts no analysis.    *)
C30_GatedAnd401 ==
    /\ web.calls > 0 => web.live
    /\ (web.pc = "done" /\ ~web.live) => (web.statusCode = 401 /\ web.calls = 0)

(* C30, amended: the handler starts an analysis only for a POST request    *)
(* whose Authorization value, without an optional "Bearer " prefix, is the *)
(* token of a session present and unexpired at lookup time; a POST request *)
(* with a missing, unknown, invalidated or expired token is answered 401,  *)
(* a request of another method is answered 405 whatever its token, and     *)
(* neither starts an analysis.                                             *)
C30_GatedByLiveSession ==
    /\ (web.pc = "analyze" \/ web.calls > 0)
          => (web.live /\ web.method = "POST")
    /\ (web.pc = "done" /\ web.method # "POST")
          => (web.statusCode = 405 /\ web.calls = 0)
    /\ (web.pc = "done" /\ web.method = "POST" /\ ~web.live)
          => (web.statusCode = 401 /\ web.calls = 0)

\* a request with the token of a session that has expired, unswept, is
\* answered 401
C30_Witness ==
    /\ web.pc = "done"
    /\ web.method = "POST"
    /\ web.authorization = "Bearer " \o TokenText(1)
    /\ sessions[1] # NoSession
    /\ now > sessions[1].expiresAt
    /\ web.statusCode = 401
    /\ web.calls = 0

=============================================================================
